---- MODULE Spec2Model ----
(***************************************************************************)
(* Model of the wiki-rag ingestion pipeline (processPage / processPages), *)
(* its storage layer (insertChunk, insertQuestion, deleteByWikiId,        *)
(* searchSimilar) and the embedding batcher (getEmbeddingsForTexts).      *)
(*                                                                         *)
(* Every await of the TypeScript code is a suspension point: an action of *)
(* the model is the return of one awaited call together with the          *)
(* synchronous code that follows it up to the next await.                  *)
(***************************************************************************)
EXTENDS Integers, Sequences, FiniteSets, TLC

\* ------------------------------------------------------------------ bounds
NumDocs == 2
MaxPages == 2
MaxBatchSize == 2
MaxChunks == 2
MaxQuestionsPerChunk == 1
MaxFragments == 4
MaxDeindex == 1

Docs == 1..NumDocs

VARIABLES
  chunk,        \* table wiki_rag.chunk: a set of rows
  question,     \* table wiki_rag.question: a set of rows
  nextChunkId,  \* SERIAL sequence of chunk.chunk_id
  nextQuestionId, \* SERIAL sequence of question.question_id
  pp,           \* the processPages call: pc, pages, batchSize, batchIndex, allResults
  run,          \* run[i]: the processPage call for pages[i]
  deindex,      \* the DELETE /api/index/:id handler: pc, id, count
  mode,         \* which history is kept: "free" (none), "reindex" (snapshot, observed),
                \* "replay" (also script: run 2 is given the responses of run 1)
  script,       \* history: the collaborator responses of run 1, by call
  snapshot,     \* history: the rows stored when run 1 returned
  observed,     \* history: what a reader could see between two storage operations of run 2
  progressLog,  \* history: for each run the PipelineProgress objects it reported, in order
  indexingTasks,\* the task registry of the index handler, in insertion order
  emb,          \* the getEmbeddingsForTexts call: pc, tokenCounts, i, batch, embeddings,
                \* failedIndices, groups (history), result
  search,       \* the searchSimilar call: pc, its arguments and the list it returned
  chunker,      \* the splitIntoChunks call: pc, cleanedHtml, response (history), result
  enricher,     \* the generateQuestionsForChunk call: pc, chunkText, response (history),
                \* result
  rag,          \* the ragSearch call: pc, params, calls (history: the external calls it
                \* issued), error
  cleaner       \* cleanHtml applied to a markup and then to its own output: pc, html,
                \* once, twice

ingestVars == <<chunk, question, nextChunkId, nextQuestionId, pp, run, deindex,
                mode, script, snapshot, observed,
               progressLog, indexingTasks>>

progressVars == <<progressLog, indexingTasks>>

\* the variables of the calls that are modelled on their own
llmVars == <<chunker, enricher>>

pureVars == <<emb, search, llmVars, rag, cleaner>>

vars == <<ingestVars, pureVars>>

\* ------------------------------------------------------------ small helpers
RECURSIVE SumTo(_, _)
SumTo(s, n) == IF n = 0 THEN 0 ELSE s[n] + SumTo(s, n - 1)

Min2(a, b) == IF a <= b THEN a ELSE b

\* ------------------------------------------------------------ storage (db.ts)

\* mutant: the delete leaves the rows in place
KeepChunkRows(tbl, wikiId) == tbl

\* mutant: the delete is not scoped to the document
DeleteAllChunkRows(tbl, wikiId) == {}

\* DELETE FROM wiki_rag.chunk WHERE wiki_id = $1
DeleteChunkRows(tbl, wikiId) == {c \in tbl : c.wiki_id # wikiId}

\* mutant: the foreign key does not cascade
NoCascade(qtbl, ctbl) == qtbl

\* fk_question_chunk ... ON DELETE CASCADE: the questions that survive a change of
\* the chunk table are those whose chunk is still there
CascadeQuestionRows(qtbl, ctbl) ==
  {q \in qtbl : \E c \in ctbl : c.chunk_id = q.chunk_id}

\* DELETE FROM wiki_rag.question WHERE wiki_id = $1
DeleteQuestionRows(qtbl, wikiId) == {q \in qtbl : q.wiki_id # wikiId}

\* mutant: the question table has no foreign key
NoForeignKey(ctbl, chunkId) == TRUE

\* fk_question_chunk: FOREIGN KEY (chunk_id) REFERENCES wiki_rag.chunk(chunk_id)
ForeignKeyHolds(ctbl, chunkId) == \E c \in ctbl : c.chunk_id = chunkId

\* embedding public.vector(1024) NOT NULL: the placeholder [] is no vector of the
\* column's dimension and the INSERT is rejected
VectorAccepted(embedding) == embedding # <<>>

\* insertChunk: the row of INSERT INTO wiki_rag.chunk ... RETURNING chunk_id.
\* by is the inserting run (history, not a column).
ChunkRow(id, wikiId, text, embedding, by) ==
  [chunk_id |-> id, wiki_id |-> wikiId, text |-> text, embedding |-> embedding, by |-> by]

\* insertQuestion: the row of INSERT INTO wiki_rag.question ...
QuestionRow(id, chunkId, wikiId, text, embedding, by) ==
  [question_id |-> id, chunk_id |-> chunkId, wiki_id |-> wikiId, text |-> text,
   embedding |-> embedding, by |-> by]

ChunksOf(d) == {c \in chunk : c.wiki_id = d}
QuestionsOf(d) == {q \in question : q.wiki_id = d}

\* --------------------------------------------------- processPage (pipeline.ts)

\* the vector the embedding service returns for input i of a call (kind 0: the
\* fragments, kind 1: the flattened questions) of run r
EmbVec(r, kind, i) == <<r, kind, i>>

\* BatchEmbeddingResult.embeddings with the inputs of the failed groups replaced by []
Embeddings(r, kind, n, failed) ==
  [i \in 1..n |-> IF i \in failed THEN <<>> ELSE EmbVec(r, kind, i)]

NoResult == [success |-> FALSE, chunksProcessed |-> -1, questionsGenerated |-> -1]

NewRun(pageId) ==
  [pc |-> "notstarted", pageId |-> pageId, nChunks |-> 0, questions |-> <<>>,
   chunkBatch |-> <<>>, chunkIds |-> <<>>, questionsBatch |-> <<>>,
   ci |-> 0, k |-> 0, savedChunks |-> 0, savedQuestions |-> 0,
   result |-> NoResult,
   \* history: the step that threw, the failures that were caught inside the run,
   \* whether deleteByWikiId has returned
   failedAt |-> "none", absorbed |-> {}, deleted |-> FALSE]

\* the locals of a processPage call that has returned are gone
Returned(rec, result) ==
  [NewRun(rec.pageId) EXCEPT !.pc = "done", !.result = result,
     !.failedAt = rec.failedAt, !.absorbed = rec.absorbed, !.deleted = rec.deleted]

\* mutant: processPage has no catch block and rejects
Rejected(rec, step) == [rec EXCEPT !.pc = "rejected", !.failedAt = step]

\* the catch block of processPage: reportProgress('error'), return success: false
Failed(rec, step) ==
  Returned([rec EXCEPT !.failedAt = step],
           [success |-> FALSE, chunksProcessed |-> 0, questionsGenerated |-> 0])

\* splitIntoChunks gave no chunk: return success: true with zero counts
NoChunks(rec) ==
  Returned(rec, [success |-> TRUE, chunksProcessed |-> 0, questionsGenerated |-> 0])

\* reportProgress('saving'), reportProgress('completed'), return success: true
Completed(rec) ==
  Returned(rec, [success |-> TRUE, chunksProcessed |-> rec.savedChunks,
                 questionsGenerated |-> rec.savedQuestions])

\* mutant: qOffset is not advanced over a chunk whose insert failed
OffsetOfSaved(rec, c) ==
  SumTo([x \in DOMAIN rec.questions |->
           IF rec.chunkIds[x] = -1 THEN 0 ELSE rec.questions[x]], c - 1)

\* qOffset on entry of iteration ci of the question loop: the counts of the chunks before it
QOffset(rec, c) == SumTo(rec.questions, c - 1)

\* the next iteration ci >= c of the question loop that inserts a question: chunks whose
\* insert failed (cid = -1) and chunks without questions are passed over
RECURSIVE SeekQuestion(_, _)
SeekQuestion(rec, c) ==
  IF c > rec.nChunks THEN c
  ELSE IF rec.chunkIds[c] # -1 /\ rec.questions[c] > 0 THEN c
  ELSE SeekQuestion(rec, c + 1)

\* --- replay of run 1's responses by run 2 (mode = "replay")
Key(name, a, b) == <<name, a, b>>

Allowed(i, key, val) ==
  (mode = "replay" /\ i = 2 /\ key \in DOMAIN script) => script[key] = val

Logged(i, key, val) ==
  IF mode = "replay" /\ i = 1 THEN (key :> val) @@ script ELSE script

\* history: the rows stored when run 1 returns
Snap(i, rec, ctbl, qtbl) ==
  IF mode # "free" /\ i = 1 /\ rec.pc = "done"
  THEN [chunk |-> ctbl, question |-> qtbl] ELSE snapshot

\* history: the rows of its document that run 2 leaves visible after a storage operation
\* that is not its last one
Observe(i, rec, ctbl, qtbl) ==
  IF mode # "free" /\ i = 2 /\ rec.pc # "done"
  THEN observed \cup {[chunk |-> {c \in ctbl : c.wiki_id = rec.pageId},
                       question |-> {q \in qtbl : q.wiki_id = rec.pageId}]}
  ELSE observed

\* --- progress reports (reportProgress) and the task registry they update

Undefined == <<>>

\* the PipelineProgress object reportProgress builds: the progress clamped to 0..100; its
\* error field is never set
Clamp(progress) == IF progress < 0 THEN 0 ELSE IF progress > 100 THEN 100 ELSE progress

Event(stage, progress, message) ==
  [stage |-> stage, progress |-> Clamp(progress), message |-> message, error |-> Undefined]

\* error.message of the exception that step threw
ErrorMessage(step) == <<"failure", step>>

\* reportProgress('error', 0, errorMessage) of the catch block
ErrorEvent(step) == Event("error", 0, ErrorMessage(step))

\* 50 + (index / chunkResult.chunks.length) * 30, index counted from 0
QuestionsProgress(index, n) == 50 + (index * 30) \div n

\* mutant: 'completed' is reported before 'saving'
CompletedThenSaving ==
  <<Event("completed", 100, <<"text">>), Event("saving", 95, Undefined)>>

\* reportProgress('saving', 95) and reportProgress('completed', 100, ...)
CompletedEvents ==
  <<Event("saving", 95, Undefined), Event("completed", 100, <<"text">>)>>

\* the first task of the registry with this pageId: Array.from(...).find(...); 0: none
FindTask(tasks, pageId) ==
  IF \E t \in DOMAIN tasks : tasks[t].pageId = pageId
  THEN CHOOSE t \in DOMAIN tasks :
         /\ tasks[t].pageId = pageId
         /\ \A u \in DOMAIN tasks : tasks[u].pageId = pageId => t <= u
  ELSE 0

\* the callback the index handler passes to processPages
Callback(tasks, pageId, progress) ==
  LET t == FindTask(tasks, pageId)
  IN IF t = 0 THEN tasks
     ELSE [tasks EXCEPT
             ![t].status = IF progress.stage = "completed" THEN "completed"
                           ELSE IF progress.stage = "error" THEN "error"
                           ELSE "processing",
             ![t].progress = progress.progress,
             ![t].error = IF progress.error # Undefined THEN progress.error ELSE @]

RECURSIVE CallbackAll(_, _, _)
CallbackAll(tasks, pageId, events) ==
  IF events = <<>> THEN tasks
  ELSE CallbackAll(Callback(tasks, pageId, events[1]), pageId, Tail(events))

\* run i calls reportProgress for each of the events, when processPages was given a callback
Notify(i, events) ==
  /\ progressLog' =
       IF mode = "progress" THEN [progressLog EXCEPT ![i] = @ \o events] ELSE progressLog
  /\ indexingTasks' =
       IF mode = "progress" THEN CallbackAll(indexingTasks, run[i].pageId, events)
       ELSE indexingTasks

Started(i) == run[i].pc \notin {"notstarted", "waiting"}

BatchOf(i) == (i - 1) \div pp.batchSize

\* the staggered start of a page of the current batch: setTimeout(index * startDelay),
\* then processPage runs up to its first await (fetchPageHtml)
StartRun(i) ==
  /\ pp.pc = "running"
  /\ i \in DOMAIN run
  /\ run[i].pc = "waiting"
  /\ \A j \in DOMAIN run : (j < i /\ BatchOf(j) = BatchOf(i)) => Started(j)
  /\ run' = [run EXCEPT ![i].pc = "fetching"]
  /\ Notify(i, <<Event("fetching", 10, <<"text">>)>>)
  /\ UNCHANGED pureVars
  /\ UNCHANGED <<chunk, question, nextChunkId, nextQuestionId, pp, deindex, mode,
                 script, snapshot, observed>>

\* mutant: the catch block deletes the rows of the page
FetchReturnsDeleting(i, ok) ==
  /\ i \in DOMAIN run
  /\ run[i].pc = "fetching"
  /\ Allowed(i, Key("fetch", 0, 0), ok)
  /\ LET rec == IF ok THEN [run[i] EXCEPT !.pc = "cleaning"] ELSE Failed(run[i], "fetch")
     IN /\ run' = [run EXCEPT ![i] = rec]
        /\ snapshot' = Snap(i, rec, chunk, question)
  /\ chunk' = IF ok THEN chunk ELSE chunk \ ChunksOf(run[i].pageId)
  /\ question' = IF ok THEN question ELSE question \ QuestionsOf(run[i].pageId)
  /\ script' = Logged(i, Key("fetch", 0, 0), ok)
  /\ Notify(i, IF ok THEN <<Event("cleaning", 20, <<"text">>)>> ELSE <<ErrorEvent("fetch")>>)
  /\ UNCHANGED pureVars
  /\ UNCHANGED <<nextChunkId, nextQuestionId, pp, deindex, mode, observed>>

\* await fetchPageHtml returns or throws
FetchReturns(i, ok) ==
  /\ i \in DOMAIN run
  /\ run[i].pc = "fetching"
  /\ Allowed(i, Key("fetch", 0, 0), ok)
  /\ LET rec == IF ok THEN [run[i] EXCEPT !.pc = "cleaning"] ELSE Failed(run[i], "fetch")
     IN /\ run' = [run EXCEPT ![i] = rec]
        /\ snapshot' = Snap(i, rec, chunk, question)
  /\ script' = Logged(i, Key("fetch", 0, 0), ok)
  /\ Notify(i, IF ok THEN <<Event("cleaning", 20, <<"text">>)>> ELSE <<ErrorEvent("fetch")>>)
  /\ UNCHANGED pureVars
  /\ UNCHANGED <<chunk, question, nextChunkId, nextQuestionId, pp, deindex, mode, observed>>

\* await cleanHtml returns or throws
CleanReturns(i, ok) ==
  /\ i \in DOMAIN run
  /\ run[i].pc = "cleaning"
  /\ Allowed(i, Key("clean", 0, 0), ok)
  /\ LET rec == IF ok THEN [run[i] EXCEPT !.pc = "chunking"] ELSE Failed(run[i], "clean")
     IN /\ run' = [run EXCEPT ![i] = rec]
        /\ snapshot' = Snap(i, rec, chunk, question)
  /\ script' = Logged(i, Key("clean", 0, 0), ok)
  /\ Notify(i, IF ok THEN <<Event("chunking", 30, <<"text">>)>> ELSE <<ErrorEvent("clean")>>)
  /\ UNCHANGED pureVars
  /\ UNCHANGED <<chunk, question, nextChunkId, nextQuestionId, pp, deindex, mode, observed>>

\* await splitIntoChunks returns n chunks (n = -1: it throws). With no chunk the run
\* returns success at once; otherwise every getQuestions call is started
\* (chunks.map(getQuestions)) and the run awaits Promise.all
SplitReturns(i, n) ==
  /\ i \in DOMAIN run
  /\ run[i].pc = "chunking"
  /\ Allowed(i, Key("split", 0, 0), n)
  /\ LET rec == IF n = -1 THEN Failed(run[i], "split")
                ELSE IF n = 0 THEN NoChunks(run[i])
                ELSE [run[i] EXCEPT !.pc = "questions", !.nChunks = n,
                                    !.questions = [c \in 1..n |-> -1]]
     IN /\ run' = [run EXCEPT ![i] = rec]
        /\ snapshot' = Snap(i, rec, chunk, question)
  /\ script' = Logged(i, Key("split", 0, 0), n)
  /\ Notify(i, IF n = -1 THEN <<ErrorEvent("split")>>
               ELSE IF n = 0 THEN <<>> ELSE <<Event("questions", 50, <<"text">>)>>)
  /\ UNCHANGED pureVars
  /\ UNCHANGED <<chunk, question, nextChunkId, nextQuestionId, pp, deindex, mode, observed>>

\* getQuestions(chunk, index) settles with nq questions (0: generateQuestionsForChunk
\* returned none, or the catch block stored questions: []). After the last one Promise.all
\* resolves: reportProgress('embeddings') and deleteByWikiId issues its first query
QuestionsReturn(i, c, nq) ==
  /\ i \in DOMAIN run
  /\ run[i].pc = "questions"
  /\ c \in 1..run[i].nChunks
  /\ run[i].questions[c] = -1
  /\ Allowed(i, Key("questions", c, 0), nq)
  /\ LET qs == [run[i].questions EXCEPT ![c] = nq]
         all == \A x \in 1..run[i].nChunks : qs[x] # -1
     IN run' = [run EXCEPT ![i].questions = qs,
                           ![i].pc = IF all THEN "deleteChunks" ELSE "questions"]
  /\ script' = Logged(i, Key("questions", c, 0), nq)
  /\ Notify(i, <<Event("questions", QuestionsProgress(c - 1, run[i].nChunks), Undefined)>> \o
               (IF \A x \in 1..run[i].nChunks : x # c => run[i].questions[x] # -1
                THEN <<Event("embeddings", 80, <<"text">>)>> ELSE <<>>))
  /\ UNCHANGED pureVars
  /\ UNCHANGED <<chunk, question, nextChunkId, nextQuestionId, pp, deindex, mode, snapshot, observed>>

\* deleteByWikiId, first query: DELETE FROM wiki_rag.chunk (cascading), or it throws
DeleteChunksReturns(i, ok) ==
  /\ i \in DOMAIN run
  /\ run[i].pc = "deleteChunks"
  /\ Allowed(i, Key("deleteChunks", 0, 0), ok)
  /\ LET rec == IF ok THEN [run[i] EXCEPT !.pc = "deleteQuestions"]
                ELSE Failed(run[i], "delete")
         ctbl == IF ok THEN DeleteChunkRows(chunk, run[i].pageId) ELSE chunk
         qtbl == CascadeQuestionRows(question, ctbl)
     IN /\ run' = [run EXCEPT ![i] = rec]
        /\ chunk' = ctbl
        /\ question' = qtbl
        /\ snapshot' = Snap(i, rec, ctbl, qtbl)
        /\ observed' = Observe(i, rec, ctbl, qtbl)
  /\ script' = Logged(i, Key("deleteChunks", 0, 0), ok)
  /\ Notify(i, IF ok THEN <<>> ELSE <<ErrorEvent("delete")>>)
  /\ UNCHANGED pureVars
  /\ UNCHANGED <<nextChunkId, nextQuestionId, pp, deindex, mode>>

\* deleteByWikiId, second query: DELETE FROM wiki_rag.question, or it throws. Then
\* getEmbeddingsForTexts(chunkEmbeddingInputs) is awaited
DeleteQuestionsReturns(i, ok) ==
  /\ i \in DOMAIN run
  /\ run[i].pc = "deleteQuestions"
  /\ Allowed(i, Key("deleteQuestions", 0, 0), ok)
  /\ LET rec == IF ok THEN [run[i] EXCEPT !.pc = "embedChunks", !.deleted = TRUE]
                ELSE Failed(run[i], "delete")
         qtbl == IF ok THEN DeleteQuestionRows(question, run[i].pageId) ELSE question
     IN /\ run' = [run EXCEPT ![i] = rec]
        /\ question' = qtbl
        /\ snapshot' = Snap(i, rec, chunk, qtbl)
        /\ observed' = Observe(i, rec, chunk, qtbl)
  /\ script' = Logged(i, Key("deleteQuestions", 0, 0), ok)
  /\ Notify(i, IF ok THEN <<>> ELSE <<ErrorEvent("delete")>>)
  /\ UNCHANGED pureVars
  /\ UNCHANGED <<chunk, nextChunkId, nextQuestionId, pp, deindex, mode>>

\* getEmbeddingsForTexts(chunkEmbeddingInputs) returns; the groups holding the indices
\* of failed did fail. The first insertChunk is awaited
EmbedChunksReturns(i, failed) ==
  /\ i \in DOMAIN run
  /\ run[i].pc = "embedChunks"
  /\ failed \subseteq 1..run[i].nChunks
  /\ Allowed(i, Key("embedChunks", 0, 0), failed)
  /\ run' = [run EXCEPT ![i].pc = "insertChunk", ![i].ci = 1,
                        ![i].chunkBatch = Embeddings(i, 0, run[i].nChunks, failed),
                        ![i].absorbed = IF failed = {} THEN @ ELSE @ \cup {"embed"}]
  /\ script' = Logged(i, Key("embedChunks", 0, 0), failed)
  /\ Notify(i, <<>>)
  /\ UNCHANGED pureVars
  /\ UNCHANGED <<chunk, question, nextChunkId, nextQuestionId, pp, deindex, mode, snapshot, observed>>

\* await insertChunk(pageId, chunkText, embeddingText, embeddings[ci] || []) returns the
\* new chunk_id or throws (the storage is unreachable, or the vector is rejected); a throw
\* is caught and -1 pushed. After the last chunk getEmbeddingsForTexts(questionEmbeddingInputs)
\* is awaited
InsertChunkReturns(i, reachable) ==
  /\ i \in DOMAIN run
  /\ run[i].pc = "insertChunk"
  /\ Allowed(i, Key("insertChunk", run[i].ci, 0), reachable)
  /\ LET r == run[i]
         ok == reachable /\ VectorAccepted(r.chunkBatch[r.ci])
         last == r.ci = r.nChunks
         row == ChunkRow(nextChunkId, r.pageId, <<r.pageId, r.ci>>, r.chunkBatch[r.ci], i)
         ctbl == IF ok THEN chunk \cup {row} ELSE chunk
     IN /\ chunk' = ctbl
        /\ observed' = Observe(i, r, ctbl, question)
        /\ nextChunkId' = IF ok THEN nextChunkId + 1 ELSE nextChunkId
        /\ run' = [run EXCEPT
              ![i].chunkIds = Append(@, IF ok THEN nextChunkId ELSE -1),
              ![i].savedChunks = IF ok THEN @ + 1 ELSE @,
              ![i].absorbed = IF ok THEN @ ELSE @ \cup {"insert"},
              ![i].ci = IF last THEN 0 ELSE @ + 1,
              ![i].pc = IF last THEN "embedQuestions" ELSE "insertChunk"]
  /\ script' = Logged(i, Key("insertChunk", run[i].ci, 0), reachable)
  /\ Notify(i, <<>>)
  /\ UNCHANGED pureVars
  /\ UNCHANGED <<question, nextQuestionId, pp, deindex, mode, snapshot>>

\* getEmbeddingsForTexts(questionEmbeddingInputs) returns. The question loop runs up to
\* its first insertQuestion; without any it ends and the run returns success
EmbedQuestionsReturns(i, failed) ==
  /\ i \in DOMAIN run
  /\ run[i].pc = "embedQuestions"
  /\ failed \subseteq 1..SumTo(run[i].questions, run[i].nChunks)
  /\ Allowed(i, Key("embedQuestions", 0, 0), failed)
  /\ LET r == run[i]
         total == SumTo(r.questions, r.nChunks)
         c == SeekQuestion(r, 1)
         r1 == [r EXCEPT !.questionsBatch = Embeddings(i, 1, total, failed),
                         !.absorbed = IF failed = {} THEN @ ELSE @ \cup {"embed"}]
         rec == IF c > r.nChunks THEN Completed(r1)
                ELSE [r1 EXCEPT !.pc = "insertQuestion", !.ci = c, !.k = 1]
     IN /\ run' = [run EXCEPT ![i] = rec]
        /\ snapshot' = Snap(i, rec, chunk, question)
  /\ script' = Logged(i, Key("embedQuestions", 0, 0), failed)
  /\ Notify(i, IF SeekQuestion(run[i], 1) > run[i].nChunks THEN CompletedEvents ELSE <<>>)
  /\ UNCHANGED pureVars
  /\ UNCHANGED <<chunk, question, nextChunkId, nextQuestionId, pp, deindex, mode, observed>>

\* await insertQuestion(cid, pageId, qText, qEmbedding) returns or throws (the storage is
\* unreachable, the vector is rejected, or the chunk row is gone: foreign key); a throw is
\* caught. Then the 20 ms pause and the next iteration; after the last one the run
\* returns success
InsertQuestionReturns(i, reachable) ==
  /\ i \in DOMAIN run
  /\ run[i].pc = "insertQuestion"
  /\ Allowed(i, Key("insertQuestion", run[i].ci, run[i].k), reachable)
  /\ LET r == run[i]
         cid == r.chunkIds[r.ci]
         qEmbedding == r.questionsBatch[QOffset(r, r.ci) + r.k]
         ok == reachable /\ VectorAccepted(qEmbedding) /\ ForeignKeyHolds(chunk, cid)
         row == QuestionRow(nextQuestionId, cid, r.pageId, <<r.pageId, r.ci, r.k>>, qEmbedding, i)
         more == r.k < r.questions[r.ci]
         c == IF more THEN r.ci ELSE SeekQuestion(r, r.ci + 1)
         r1 == [r EXCEPT !.savedQuestions = IF ok THEN @ + 1 ELSE @,
                         !.absorbed = IF ok THEN @ ELSE @ \cup {"insert"}]
         rec == IF c > r.nChunks THEN Completed([r1 EXCEPT !.ci = 0, !.k = 0])
                ELSE [r1 EXCEPT !.ci = c, !.k = IF more THEN r.k + 1 ELSE 1]
         qtbl == IF ok THEN question \cup {row} ELSE question
     IN /\ question' = qtbl
        /\ nextQuestionId' = IF ok THEN nextQuestionId + 1 ELSE nextQuestionId
        /\ run' = [run EXCEPT ![i] = rec]
        /\ snapshot' = Snap(i, rec, chunk, qtbl)
        /\ observed' = Observe(i, rec, chunk, qtbl)
  /\ script' = Logged(i, Key("insertQuestion", run[i].ci, run[i].k), reachable)
  /\ Notify(i, IF run[i].k >= run[i].questions[run[i].ci]
                  /\ SeekQuestion(run[i], run[i].ci + 1) > run[i].nChunks
               THEN CompletedEvents ELSE <<>>)
  /\ UNCHANGED pureVars
  /\ UNCHANGED <<chunk, nextChunkId, pp, deindex, mode>>

\* -------------------------------------------------- processPages (pipeline.ts)

NumBatches(n, bs) == (n + bs - 1) \div bs

\* mutant: every page belongs to every batch
InEveryBatch(i, b, bs) == TRUE

InBatch(i, b, bs) == (i - 1) \div bs = b

\* batch.map(async (page, index) => ...): every page of batch b awaits its start timer
LaunchBatch(rs, b, bs) ==
  [i \in DOMAIN rs |-> IF InBatch(i, b, bs) THEN [rs[i] EXCEPT !.pc = "waiting"] ELSE rs[i]]

\* processPages(pages, token, {batchSize}, progressCallback) is called: the batches are
\* cut and the first one is launched; without pages the call returns []
ProcessPages(pages, batchSize) ==
  /\ pp.pc = "idle"
  /\ LET rs == [i \in 1..Len(pages) |-> NewRun(pages[i])]
     IN /\ run' = LaunchBatch(rs, 0, batchSize)
        /\ pp' = [pc |-> IF Len(pages) = 0 THEN "done" ELSE "running", pages |-> pages,
                  batchSize |-> batchSize, batchIndex |-> 0, allResults |-> <<>>]
  /\ UNCHANGED progressVars
  /\ UNCHANGED pureVars
  /\ UNCHANGED <<chunk, question, nextChunkId, nextQuestionId, deindex, mode, script,
                 snapshot, observed>>

\* await Promise.all(processingPromises) resolves: the batch's results are appended in
\* page order and the next batch is launched, or processPages returns allResults
BatchDone ==
  /\ pp.pc = "running"
  /\ \A i \in DOMAIN run : InBatch(i, pp.batchIndex, pp.batchSize) => run[i].pc = "done"
  /\ LET b == pp.batchIndex
         lo == b * pp.batchSize + 1
         hi == Min2((b + 1) * pp.batchSize, Len(pp.pages))
         res == [j \in 1..(hi - lo + 1) |->
                   [pageId |-> run[lo + j - 1].pageId] @@ run[lo + j - 1].result]
         last == b + 1 >= NumBatches(Len(pp.pages), pp.batchSize)
     IN /\ pp' = [pp EXCEPT !.allResults = @ \o res, !.batchIndex = b + 1,
                            !.pc = IF last THEN "done" ELSE "running"]
        /\ run' = IF last THEN run ELSE LaunchBatch(run, b + 1, pp.batchSize)
  /\ UNCHANGED progressVars
  /\ UNCHANGED pureVars
  /\ UNCHANGED <<chunk, question, nextChunkId, nextQuestionId, deindex, mode, script,
                 snapshot, observed>>

\* ------------------------------------------ POST /api/index (indexHandler)

DefaultBatchSize == 100

\* a new IndexingTask: { id, pageId, status: 'queued', progress: 0 }
NewTask(id, pageId) ==
  [id |-> id, pageId |-> pageId, status |-> "queued", progress |-> 0, error |-> Undefined]

\* indexHandler: one task per page is put into the registry, then processPages(pages,
\* token, { concurrency: 3, startDelay: 100 }, callback) is started in the background;
\* batchSize is left at its default
IndexHandler(pages) ==
  /\ pp.pc = "idle"
  /\ mode = "progress"
  /\ indexingTasks' = indexingTasks \o
       [j \in 1..Len(pages) |-> NewTask(Len(indexingTasks) + j, pages[j])]
  /\ LET rs == [i \in 1..Len(pages) |-> NewRun(pages[i])]
     IN /\ run' = LaunchBatch(rs, 0, DefaultBatchSize)
        /\ pp' = [pc |-> IF Len(pages) = 0 THEN "done" ELSE "running", pages |-> pages,
                  batchSize |-> DefaultBatchSize, batchIndex |-> 0, allResults |-> <<>>]
  /\ UNCHANGED pureVars
  /\ progressLog' = [i \in 1..Len(pages) |-> <<>>]
  /\ UNCHANGED <<chunk, question, nextChunkId, nextQuestionId, deindex, mode, script,
                 snapshot, observed>>

\* ------------------------------------------- DELETE /api/index/:id (server.ts)

\* the handler calls deleteByWikiId(id): its first query is in flight
DeindexRequest(id) ==
  /\ deindex.pc = "idle"
  /\ deindex.count < MaxDeindex
  /\ deindex' = [pc |-> "deleteChunks", id |-> id, count |-> deindex.count + 1]
  /\ UNCHANGED progressVars
  /\ UNCHANGED pureVars
  /\ UNCHANGED <<chunk, question, nextChunkId, nextQuestionId, pp, run, mode, script,
                 snapshot, observed>>

DeindexDeleteChunks(ok) ==
  /\ deindex.pc = "deleteChunks"
  /\ LET ctbl == IF ok THEN DeleteChunkRows(chunk, deindex.id) ELSE chunk
     IN /\ chunk' = ctbl
        /\ question' = CascadeQuestionRows(question, ctbl)
  /\ deindex' = [deindex EXCEPT !.pc = IF ok THEN "deleteQuestions" ELSE "idle"]
  /\ UNCHANGED progressVars
  /\ UNCHANGED pureVars
  /\ UNCHANGED <<nextChunkId, nextQuestionId, pp, run, mode, script, snapshot, observed>>

DeindexDeleteQuestions(ok) ==
  /\ deindex.pc = "deleteQuestions"
  /\ question' = IF ok THEN DeleteQuestionRows(question, deindex.id) ELSE question
  /\ deindex' = [deindex EXCEPT !.pc = "idle"]
  /\ UNCHANGED progressVars
  /\ UNCHANGED pureVars
  /\ UNCHANGED <<chunk, nextChunkId, nextQuestionId, pp, run, mode, script, snapshot, observed>>

\* ------------------------------------- getEmbeddingsForTexts (lib/embeddings.ts)

MaxTexts == 3
MAX_TOKENS_PER_BATCH == 8000

\* the token counts stringTokens gives the texts of a call
TokenCounts == {0, 3000, 5000, 9000}

\* what openai.embeddings.create does with a group: it returns one vector per input,
\* it throws, it returns fewer vectors than inputs, or it returns no data
Outcomes == {"ok", "throw", "short", "nodata"}

EmbIdle ==
  [pc |-> "idle", tokenCounts |-> <<>>, i |-> 0, batch |-> <<>>, embeddings |-> <<>>,
   failedIndices |-> <<>>, groups |-> <<>>,
   result |-> [embeddings |-> <<>>, hasFailedIndices |-> FALSE, failedIndices |-> <<>>]]

\* mutant: a text is added whatever the group already holds
NeverExceedsLimit(tks, currentTokens) == FALSE

\* if (tks + currentTokens > MAX_TOKENS_PER_BATCH) break
ExceedsLimit(tks, currentTokens) == tks + currentTokens > MAX_TOKENS_PER_BATCH

\* the inner while loop: the indices (1-based) of the group that starts at input j, given
\* the group built so far and its token sum
RECURSIVE BuildBatch(_, _, _, _)
BuildBatch(tokenCounts, j, batch, currentTokens) ==
  IF j > Len(tokenCounts) THEN batch
  ELSE LET tks == tokenCounts[j]
       IN IF tks > MAX_TOKENS_PER_BATCH /\ batch = <<>> THEN <<j>>
          ELSE IF ExceedsLimit(tks, currentTokens) THEN batch
          ELSE BuildBatch(tokenCounts, j + 1, Append(batch, j), currentTokens + tks)

\* the vector the service computes for input j of the call
ServiceVector(j) == <<j>>

\* response.data.forEach(item => embeddings.push(item.embedding))
PushVectors(embeddings, batch) ==
  embeddings \o [p \in 1..Len(batch) |-> ServiceVector(batch[p])]

\* mutant: one placeholder for the whole failed group
PushOnePlaceholder(embeddings, batch) == Append(embeddings, <<>>)

\* for (const idx of currentBatchIndices) embeddings.push([])
PushPlaceholders(embeddings, batch) ==
  embeddings \o [p \in 1..Len(batch) |-> <<>>]

\* mutant: only the first index of the failed group is recorded
MarkFirstFailed(failedIndices, batch) == Append(failedIndices, batch[1])

\* for (const idx of currentBatchIndices) failedIndices.push(idx)
MarkFailed(failedIndices, batch) == failedIndices \o batch

\* the return statement: failedIndices is undefined when no group failed
EmbResult(embeddings, failedIndices) ==
  [embeddings |-> embeddings, hasFailedIndices |-> failedIndices # <<>>,
   failedIndices |-> failedIndices]

\* getEmbeddingsForTexts(texts) is called: without texts it returns { embeddings: [] };
\* otherwise the first group is built and its request is awaited
GetEmbeddingsForTexts(tokenCounts) ==
  /\ emb.pc = "idle"
  /\ emb' = IF Len(tokenCounts) = 0
            THEN [EmbIdle EXCEPT !.pc = "done"]
            ELSE [EmbIdle EXCEPT !.pc = "request", !.tokenCounts = tokenCounts,
                    !.i = 1, !.batch = BuildBatch(tokenCounts, 1, <<>>, 0)]
  /\ UNCHANGED <<ingestVars, search, llmVars, rag, cleaner>>

\* the request of the current group returns or throws; its vectors or its placeholders
\* are pushed; then the next group is built and requested (after the 250 ms pause), or
\* the call returns
EmbeddingsResponse(outcome) ==
  /\ emb.pc = "request"
  /\ LET ok == outcome = "ok"
         embs == IF ok THEN PushVectors(emb.embeddings, emb.batch)
                 ELSE PushPlaceholders(emb.embeddings, emb.batch)
         failed == IF ok THEN emb.failedIndices
                   ELSE MarkFailed(emb.failedIndices, emb.batch)
         i2 == emb.i + Len(emb.batch)
         last == i2 > Len(emb.tokenCounts)
         groups == Append(emb.groups, [indices |-> emb.batch, outcome |-> outcome])
     IN emb' = IF last
               THEN [emb EXCEPT !.pc = "done", !.i = i2, !.batch = <<>>,
                       !.embeddings = embs, !.failedIndices = failed, !.groups = groups,
                       !.result = EmbResult(embs, failed)]
               ELSE [emb EXCEPT !.i = i2, !.embeddings = embs, !.failedIndices = failed,
                       !.groups = groups,
                       !.batch = BuildBatch(emb.tokenCounts, i2, <<>>, 0)]
  /\ UNCHANGED <<ingestVars, search, llmVars, rag, cleaner>>

\* ------------------------------------------------------- searchSimilar (db.ts)

MaxSearchChunks == 2
MaxSearchQuestions == 2
MaxCoord == 3
MaxLimit == 2
RealStep == 3

SearchIdle ==
  [pc |-> "idle", query |-> <<>>, threshold |-> 0, limit |-> 0, results |-> <<>>,
   response |-> [results |-> <<>>, total_results |-> 0, threshold |-> 0]]

\* vectors are points of a line and <=> is the distance of two points, in units of the
\* double precision the operator returns
Coords == 0..MaxCoord

Distance(a, b) == IF a[1] >= b[1] THEN a[1] - b[1] ELSE b[1] - a[1]

\* (... <=> $1)::real: the distance rounded to the nearest single precision value, these
\* being RealStep units apart
Real(d) == RealStep * ((d + RealStep \div 2) \div RealStep)

\* WHERE (embedding <=> $1) <= $2
Passes(d, threshold) == d <= threshold

NullQuestion == <<>>

\* query 1: the questions joined with their chunk, within the threshold
QuestionQueryRows(query, threshold) ==
  {[chunk_id |-> q.chunk_id, wiki_id |-> q.wiki_id, question |-> q.text, chunk |-> c.text,
    cs |-> Real(Distance(q.embedding, query)), src |-> <<1, q.question_id>>] :
     <<q, c>> \in {qc \in question \X chunk :
                    /\ qc[1].chunk_id = qc[2].chunk_id
                    /\ Passes(Distance(qc[1].embedding, query), threshold)}}

\* query 2: the chunks within the threshold
ChunkQueryRows(query, threshold) ==
  {[chunk_id |-> c.chunk_id, wiki_id |-> c.wiki_id, question |-> NullQuestion,
    chunk |-> c.text, cs |-> Real(Distance(c.embedding, query)),
    src |-> <<2, c.chunk_id>>] :
     c \in {x \in chunk : Passes(Distance(x.embedding, query), threshold)}}

\* ORDER BY "cs": the rows in any order that is ascending in cs
Ordered(rows) ==
  {s \in [1..Cardinality(rows) -> rows] :
     /\ \A a, b \in DOMAIN s : a # b => s[a] # s[b]
     /\ \A a, b \in DOMAIN s : a < b => s[a].cs <= s[b].cs}

IndexOfChunk(m, chunkId) ==
  IF \E p \in DOMAIN m : m[p].chunk_id = chunkId
  THEN CHOOSE p \in DOMAIN m : m[p].chunk_id = chunkId ELSE 0

\* mutant: a later row replaces the kept one when it is no better
ReplaceAlways(m, row) ==
  LET p == IndexOfChunk(m, row.chunk_id)
  IN IF p = 0 THEN Append(m, row) ELSE [m EXCEPT ![p] = row]

\* mutant: a closer row replaces the distance of the kept one and leaves its other columns
ReplaceDistanceOnly(m, row) ==
  LET p == IndexOfChunk(m, row.chunk_id)
  IN IF p = 0 THEN Append(m, row)
     ELSE IF row.cs < m[p].cs THEN [m EXCEPT ![p].cs = row.cs] ELSE m

\* the body of the loop over allResults: chunkMap keeps its keys in insertion order, and a
\* row replaces the kept one of its chunk when its cs is smaller
MapSet(m, row) ==
  LET p == IndexOfChunk(m, row.chunk_id)
  IN IF p = 0 THEN Append(m, row)
     ELSE IF row.cs < m[p].cs THEN [m EXCEPT ![p] = row] ELSE m

RECURSIVE MergeRows(_, _, _)
MergeRows(m, rows, p) ==
  IF p > Len(rows) THEN m ELSE MergeRows(MapSet(m, rows[p]), rows, p + 1)

\* insertion of x into a list sorted by cs, after the entries that do not compare greater
RECURSIVE InsertSorted(_, _)
InsertSorted(s, x) ==
  IF s = <<>> THEN <<x>>
  ELSE IF x.cs < s[1].cs THEN <<x>> \o s
  ELSE <<s[1]>> \o InsertSorted(Tail(s), x)

\* mutant: the list is left in map order
Unsorted(s) == s

\* .sort((a, b) => a.cs - b.cs): a stable sort, ascending in cs
RECURSIVE SortByCs(_)
SortByCs(s) ==
  IF s = <<>> THEN <<>>
  ELSE InsertSorted(SortByCs(SubSeq(s, 1, Len(s) - 1)), s[Len(s)])

\* .slice(0, chunksLimit)
Slice(s, limit) == SubSeq(s, 1, Min2(limit, Len(s)))

\* the columns of a result
Columns(row) ==
  [chunk_id |-> row.chunk_id, wiki_id |-> row.wiki_id, question |-> row.question,
   chunk |-> row.chunk, cs |-> row.cs]

\* ragSearch maps the rows to the items of its response, in their order
RagResponse(rows, threshold) ==
  [results |-> [p \in DOMAIN rows |->
                  [chunk_id |-> rows[p].chunk_id, wiki_id |-> rows[p].wiki_id,
                   question |-> rows[p].question, chunk |-> rows[p].chunk,
                   similarity |-> rows[p].cs, source |-> "chunk"]],
   total_results |-> Len(rows), threshold |-> threshold]

\* searchSimilar(queryEmbedding, threshold, chunksLimit), called by ragSearch: the two
\* queries, the merge by chunk_id, the sort and the slice; then the response of ragSearch
SearchSimilar(query, threshold, limit) ==
  /\ search.pc = "idle"
  /\ \E qrows \in Ordered(QuestionQueryRows(query, threshold)),
        crows \in Ordered(ChunkQueryRows(query, threshold)) :
       LET merged == MergeRows(<<>>, qrows \o crows, 1)
           top == Slice(SortByCs(merged), limit)
           rows == [p \in DOMAIN top |-> Columns(top[p])]
       IN search' = [pc |-> "done", query |-> query, threshold |-> threshold,
                     limit |-> limit, results |-> rows,
                     response |-> RagResponse(rows, threshold)]
  /\ UNCHANGED <<ingestVars, emb, llmVars, rag, cleaner>>

\* ------------------------------------------- segmentation (server.ts 442-604)
MaxTextLen == 5
MaxResponseItems == 2
\* the character budget, scaled down with the texts
CHUNK_CHARS_LIMIT == 3

\* a text is a sequence of characters: "a" stands for every character that is neither
\* white space nor sentence punctuation, "." for the characters of [.!?]
Chars == {"a", ".", " ", "\n"}
Texts == UNION {[1..n -> Chars] : n \in 0..MaxTextLen}

IsSpace(c) == c \in {" ", "\n"}

\* s.trim().length === 0
Blank(s) == \A p \in DOMAIN s : IsSpace(s[p])

\* String.prototype.trim
Trim(s) ==
  IF Blank(s) THEN <<>>
  ELSE LET solid == {p \in DOMAIN s : ~IsSpace(s[p])}
           first == CHOOSE p \in solid : \A r \in solid : p <= r
           last == CHOOSE p \in solid : \A r \in solid : r <= p
       IN SubSeq(s, first, last)

\* the last position of the match of /\n\s*\n/ that starts at p (\s* is greedy), 0 when
\* there is no match at p
SeparatorEnd(s, p) ==
  IF s[p] # "\n" THEN 0
  ELSE LET ends == {e \in (p + 1)..Len(s) : s[e] = "\n" /\ \A r \in (p + 1)..e : IsSpace(s[r])}
       IN IF ends = {} THEN 0 ELSE CHOOSE e \in ends : \A r \in ends : r <= e

\* text.split(/\n\s*\n/)
RECURSIVE SplitParagraphs(_)
SplitParagraphs(s) ==
  LET starts == {p \in DOMAIN s : SeparatorEnd(s, p) > 0} IN
  IF starts = {} THEN <<s>>
  ELSE LET p == CHOOSE q \in starts : \A r \in starts : q <= r
       IN <<SubSeq(s, 1, p - 1)>> \o SplitParagraphs(SubSeq(s, SeparatorEnd(s, p) + 1, Len(s)))

\* the last position of the match of /[.!?]+/ that starts at p, 0 when there is none
PunctuationEnd(s, p) ==
  IF s[p] # "." THEN 0
  ELSE LET ends == {e \in p..Len(s) : \A r \in p..e : s[r] = "."}
       IN CHOOSE e \in ends : \A r \in ends : r <= e

\* paragraph.split(/[.!?]+/)
RECURSIVE SplitSentences(_)
SplitSentences(s) ==
  LET starts == {p \in DOMAIN s : s[p] = "."} IN
  IF starts = {} THEN <<s>>
  ELSE LET p == CHOOSE q \in starts : \A r \in starts : q <= r
       IN <<SubSeq(s, 1, p - 1)>> \o SplitSentences(SubSeq(s, PunctuationEnd(s, p) + 1, Len(s)))

\* .filter(p => p.trim().length > 0)
RECURSIVE NonBlank(_)
NonBlank(ss) ==
  IF ss = <<>> THEN <<>>
  ELSE (IF Blank(Head(ss)) THEN <<>> ELSE <<Head(ss)>>) \o NonBlank(Tail(ss))

\* the loop over the sentences of a paragraph that is longer than the budget
\* (server.ts 572-580): the chunks pushed so far and sentenceChunk
RECURSIVE SentenceLoop(_, _, _, _)
SentenceLoop(sentences, chunks, sentenceChunk, maxChunkLength) ==
  IF sentences = <<>> THEN [chunks |-> chunks, sentenceChunk |-> sentenceChunk]
  ELSE LET sentence == Head(sentences)
           push == /\ Len(sentenceChunk) + Len(sentence) > maxChunkLength
                   /\ ~Blank(sentenceChunk)
       IN SentenceLoop(Tail(sentences),
                       IF push THEN Append(chunks, Trim(sentenceChunk)) ELSE chunks,
                       (IF push THEN <<>> ELSE sentenceChunk) \o sentence \o <<".", " ">>,
                       maxChunkLength)

\* the loop over the paragraphs (server.ts 558-595): the chunks pushed so far and
\* currentChunk
RECURSIVE ParagraphLoop(_, _, _, _)
ParagraphLoop(paragraphs, chunks, currentChunk, maxChunkLength) ==
  IF paragraphs = <<>> THEN [chunks |-> chunks, currentChunk |-> currentChunk]
  ELSE
    LET paragraph == Head(paragraphs)
        exceeds == Len(currentChunk) + Len(paragraph) > maxChunkLength
        push == exceeds /\ ~Blank(currentChunk)
        saved == IF push THEN Append(chunks, Trim(currentChunk)) ELSE chunks
        kept == IF push THEN <<>> ELSE currentChunk
        bySentence == SentenceLoop(NonBlank(SplitSentences(paragraph)), saved, <<>>,
                                   maxChunkLength)
    IN IF exceeds /\ Len(paragraph) > maxChunkLength
         THEN ParagraphLoop(Tail(paragraphs), bySentence.chunks,
                            IF ~Blank(bySentence.sentenceChunk)
                              THEN Trim(bySentence.sentenceChunk) ELSE kept,
                            maxChunkLength)
       ELSE IF exceeds
         THEN ParagraphLoop(Tail(paragraphs), saved, paragraph, maxChunkLength)
       ELSE ParagraphLoop(Tail(paragraphs), chunks,
                          IF Len(currentChunk) > 0
                            THEN currentChunk \o <<"\n", "\n">> \o paragraph
                            ELSE paragraph,
                          maxChunkLength)

\* fallbackTextSplitting (server.ts 552-604)
FallbackTextSplitting(text, maxChunkLength) ==
  LET loop == ParagraphLoop(NonBlank(SplitParagraphs(text)), <<>>, <<>>, maxChunkLength)
  IN IF ~Blank(loop.currentChunk) THEN Append(loop.chunks, Trim(loop.currentChunk))
     ELSE loop.chunks

\* what the chat completion request of splitIntoChunks can do: throw, return without
\* resultJson (no content, or content that JSON.parse rejects), return an object without
\* a chunks array, or return an object with an array of strings
ResponseItems == {<<>>, <<" ">>, <<"a">>, <<" ", "a", " ">>}
ChunkResponses ==
  {[kind |-> k, chunks |-> <<>>] : k \in {"throws", "noJson", "noArray"}}
    \cup {[kind |-> "array", chunks |-> cs] :
            cs \in UNION {[1..n -> ResponseItems] : n \in 0..MaxResponseItems}}

\* .filter(chunk => typeof chunk === 'string' && chunk.trim().length > 0)
\* .map(chunk => chunk.trim())
RECURSIVE TrimAll(_)
TrimAll(ss) == IF ss = <<>> THEN <<>> ELSE <<Trim(Head(ss))>> \o TrimAll(Tail(ss))

NoResponse == [kind |-> "none", chunks |-> <<>>]

ChunkerIdle == [pc |-> "idle", cleanedHtml |-> <<>>, response |-> NoResponse,
                fallback |-> FALSE, result |-> <<>>]

\* splitIntoChunks up to its await (server.ts 442-467)
SplitIntoChunks(cleanedHtml) ==
  /\ chunker.pc = "idle"
  /\ chunker' =
       IF Blank(cleanedHtml)
         THEN [ChunkerIdle EXCEPT !.pc = "done", !.cleanedHtml = cleanedHtml]
       ELSE IF Len(cleanedHtml) < CHUNK_CHARS_LIMIT
         THEN [ChunkerIdle EXCEPT !.pc = "done", !.cleanedHtml = cleanedHtml,
                                  !.result = <<cleanedHtml>>]
       ELSE [ChunkerIdle EXCEPT !.pc = "chat", !.cleanedHtml = cleanedHtml]
  /\ UNCHANGED <<ingestVars, emb, search, enricher, rag, cleaner>>

\* chatCompletionRequest settles: the rest of the try block or the catch block
\* (server.ts 499-546)
ChunkChatReturns(response) ==
  /\ chunker.pc = "chat"
  /\ chunker' =
       IF response.kind = "array"
         THEN [chunker EXCEPT !.pc = "done", !.response = response,
                              !.result = TrimAll(NonBlank(response.chunks))]
       ELSE [chunker EXCEPT !.pc = "done", !.response = response, !.fallback = TRUE,
                            !.result = FallbackTextSplitting(chunker.cleanedHtml,
                                                             CHUNK_CHARS_LIMIT)]
  /\ UNCHANGED <<ingestVars, emb, search, enricher, rag, cleaner>>

\* ---------------------------------------- question generation (part_001 22-137)
MinQuestionLength == 10
DefaultMaxQuestions == 20

\* the questions a response can hold: empty, blank, one character too short, of the
\* minimum length, and of the minimum length inside white space
ShortQuestion == [p \in 1..(MinQuestionLength - 1) |-> "a"]
LongQuestion == [p \in 1..MinQuestionLength |-> "a"]
QuestionItems == {<<>>, <<" ">>, ShortQuestion, LongQuestion, <<" ">> \o LongQuestion \o <<" ">>}
QuestionResponses ==
  {[kind |-> k, questions |-> <<>>] : k \in {"throws", "noJson", "noArray"}}
    \cup {[kind |-> "array", questions |-> qs] :
            qs \in UNION {[1..n -> QuestionItems] : n \in 0..MaxResponseItems}}

\* .filter(q => q.length >= 10)
RECURSIVE LongEnough(_)
LongEnough(ss) ==
  IF ss = <<>> THEN <<>>
  ELSE (IF Len(Head(ss)) >= MinQuestionLength THEN <<Head(ss)>> ELSE <<>>)
         \o LongEnough(Tail(ss))

EnricherIdle == [pc |-> "idle", chunkText |-> <<>>, maxQuestions |-> DefaultMaxQuestions,
                 response |-> [kind |-> "none", questions |-> <<>>], result |-> <<>>]

\* generateQuestionsForChunk up to its await (part_001 22-92)
GenerateQuestionsForChunk(chunkText, maxQuestions) ==
  /\ enricher.pc = "idle"
  /\ enricher' =
       [EnricherIdle EXCEPT !.pc = IF Blank(chunkText) THEN "done" ELSE "chat",
                            !.chunkText = chunkText, !.maxQuestions = maxQuestions]
  /\ UNCHANGED <<ingestVars, emb, search, chunker, rag, cleaner>>

\* chatCompletionRequest settles: the rest of the try block or the catch block
\* (part_001 95-136)
QuestionChatReturns(response) ==
  /\ enricher.pc = "chat"
  /\ enricher' =
       [enricher EXCEPT
          !.pc = "done", !.response = response,
          !.result =
            IF response.kind = "array"
              THEN Slice(LongEnough(TrimAll(NonBlank(response.questions))),
                         enricher.maxQuestions)
            ELSE <<enricher.chunkText>>]
  /\ UNCHANGED <<ingestVars, emb, search, chunker, rag, cleaner>>

\* ------------------------------------------------ ragSearch (pipeline.ts 437-480)

\* the values a JSON request body can give a parameter; numbers are in hundredths for
\* threshold and in units for chunksLimit
Absent == [type |-> "undefined", value |-> 0]
Str(chars) == [type |-> "string", value |-> chars]
Num(n) == [type |-> "number", value |-> n]

Queries == {Absent, Str(<<>>), Str(<<" ">>), Str(<<"a">>), Num(1)}
Thresholds == {Absent, Str(<<"a">>), Num(-1), Num(0), Num(65), Num(100), Num(101)}
Limits == {Absent, Str(<<"a">>), Num(0), Num(1), Num(10), Num(100), Num(101)}

\* const { query, threshold = 0.65, chunksLimit = 10 } = params
Default(v, d) == IF v = Absent THEN Num(d) ELSE v

\* !(!query || typeof query !== 'string')
QueryValid(query) == query.type = "string" /\ query.value # <<>>

\* mutant: the threshold is not validated
AnyThreshold(threshold) == TRUE

\* !(typeof threshold !== 'number' || threshold < 0 || threshold > 1), in hundredths
ThresholdValid(threshold) ==
  threshold.type = "number" /\ threshold.value >= 0 /\ threshold.value <= 100

\* !(typeof chunksLimit !== 'number' || chunksLimit < 1 || chunksLimit > 100)
LimitValid(chunksLimit) ==
  chunksLimit.type = "number" /\ chunksLimit.value >= 1 /\ chunksLimit.value <= 100

RagIdle == [pc |-> "idle", query |-> Absent, threshold |-> Absent, chunksLimit |-> Absent,
            calls |-> <<>>, embedding |-> <<>>, error |-> "none"]

\* ragSearch(params) up to its first await: the three validations, then
\* getEmbeddingForText(query), which throws for a blank text and otherwise awaits
\* getEmbeddingsForTexts([text]), whose single group is requested
RagSearch(query, threshold, chunksLimit) ==
  /\ rag.pc = "idle"
  /\ LET t == Default(threshold, 65)
         l == Default(chunksLimit, 10)
         called == [RagIdle EXCEPT !.query = query, !.threshold = threshold,
                                   !.chunksLimit = chunksLimit]
     IN rag' =
          IF ~QueryValid(query)
            THEN [called EXCEPT !.pc = "failed", !.error = "query string required"]
          ELSE IF ~ThresholdValid(t)
            THEN [called EXCEPT !.pc = "failed", !.error = "threshold"]
          ELSE IF ~LimitValid(l)
            THEN [called EXCEPT !.pc = "failed", !.error = "chunksLimit"]
          ELSE IF Blank(query.value)
            THEN [called EXCEPT !.pc = "failed", !.error = "Text cannot be empty"]
          ELSE [called EXCEPT !.pc = "embedding", !.calls = <<"embeddings.create">>]
  /\ UNCHANGED <<ingestVars, emb, search, llmVars, cleaner>>

\* getEmbeddingsForTexts([query]) returns one vector or one placeholder: embeddings has
\* one element, getEmbeddingForText returns embeddings[0] and searchSimilar is awaited
\* with it
RagEmbeddingReturns(outcome) ==
  /\ rag.pc = "embedding"
  /\ LET embeddings == IF outcome = "ok" THEN PushVectors(<<>>, <<1>>)
                       ELSE PushPlaceholders(<<>>, <<1>>)
     IN rag' = [rag EXCEPT !.pc = "searching", !.embedding = embeddings[1],
                           !.calls = Append(@, "searchSimilar")]
  /\ UNCHANGED <<ingestVars, emb, search, llmVars, cleaner>>

\* searchSimilar returns its rows or throws; its first query throws for the vector '[]'
RagSearchReturns(ok) ==
  /\ rag.pc = "searching"
  /\ ok => VectorAccepted(rag.embedding)
  /\ rag' = [rag EXCEPT !.pc = IF ok THEN "done" ELSE "failed",
                        !.error = IF ok THEN "none" ELSE "searchSimilar"]
  /\ UNCHANGED <<ingestVars, emb, search, llmVars, cleaner>>

\* ---------------------------------------------------- cleanHtml (part_003)
MaxChain == 5
MaxEscape == 3
\* options.maxNestingLevel, scaled down with the markups
MaxNestingLevel == 5

\* a markup is the node list cheerio.load gives it. An element is [tag, kids]; a text
\* node is [tag |-> "#text", kids |-> its characters]; a character is "#x" (any visible
\* character) or "#esc": the entity-escaped source of a node list, which text() decodes
\* to markup. White space and attributes are left out.
Element(tag, kids) == [tag |-> tag, kids |-> kids]
TextNode(chars) == [tag |-> "#text", kids |-> chars]
VisibleChar == [tag |-> "#x", kids |-> <<>>]
Escaped(nodes) == [tag |-> "#esc", kids |-> nodes]
IsElement(n) == n.tag # "#text"

\* div and span; section stands for the elements that are kept as they are and b for
\* the parents p, span, i, b, em, strong below which no div is unwrapped (step 6
\* rebuilds a b as a b)
ChainTags == {"div", "section", "b"}

\* elementsToRemove, step 1
Unwanted == {"script"}

\* isBlockElement
Block == {"div", "section"}

\* the parents of an unwrapped div that would give invalid nesting
NoUnwrapBelow == {"b"}

RECURSIVE Chain(_, _)
Chain(tags, leaf) ==
  IF tags = <<>> THEN leaf ELSE <<Element(Head(tags), Chain(Tail(tags), leaf))>>

Sections(n) == [p \in 1..n |-> "section"]

\* text that is markup escaped k times: n nested sections around a visible character
RECURSIVE EscapedLeaf(_, _)
EscapedLeaf(k, n) ==
  IF k = 0 THEN Chain(Sections(n), <<TextNode(<<VisibleChar>>)>>)
  ELSE <<TextNode(<<Escaped(IF k = 1 THEN EscapedLeaf(0, n)
                            ELSE <<Element("section", EscapedLeaf(k - 1, n))>>)>>)>>

Leaves ==
  {<<>>, <<TextNode(<<VisibleChar>>)>>, <<Element("br", <<>>)>>, <<Element("script", <<>>)>>,
   <<TextNode(<<VisibleChar>>), Element("br", <<>>), Element("br", <<>>)>>}
    \cup {EscapedLeaf(k, n) : k \in 1..MaxEscape, n \in 1..MaxChain}

\* the markups: a chain of nested elements around a leaf
Markups ==
  {Chain(tags, leaf) : tags \in UNION {[1..n -> ChainTags] : n \in 0..MaxChain},
                       leaf \in Leaves}

\* cheerio.load(html): the document is html > body > nodes (head is removed by step 1);
\* adjacent text nodes of the source are one text node
RECURSIVE MergeText(_)
MergeText(nodes) ==
  IF nodes = <<>> THEN <<>>
  ELSE LET n == Head(nodes)
           rest == MergeText(Tail(nodes))
       IN IF IsElement(n) THEN <<Element(n.tag, MergeText(n.kids))>> \o rest
          ELSE IF rest # <<>> /\ ~IsElement(Head(rest))
            THEN <<TextNode(n.kids \o Head(rest).kids)>> \o Tail(rest)
          ELSE <<n>> \o rest

RECURSIVE WithoutHtml(_)
WithoutHtml(nodes) ==
  IF nodes = <<>> THEN <<>>
  ELSE (IF Head(nodes).tag = "html" THEN <<>> ELSE <<Head(nodes)>>) \o WithoutHtml(Tail(nodes))

Load(nodes) == <<Element("html", <<Element("body", MergeText(WithoutHtml(nodes)))>>)>>

\* step 1: $(selector).remove() for the unwanted elements
RECURSIVE RemoveUnwanted(_)
RemoveUnwanted(nodes) ==
  IF nodes = <<>> THEN <<>>
  ELSE LET n == Head(nodes)
       IN (IF n.tag \in Unwanted THEN <<>>
           ELSE IF IsElement(n) THEN <<Element(n.tag, RemoveUnwanted(n.kids))>>
           ELSE <<n>>) \o RemoveUnwanted(Tail(nodes))

\* element.text(): the characters of the text nodes below, in document order
RECURSIVE TextOf(_)
TextOf(nodes) ==
  IF nodes = <<>> THEN <<>>
  ELSE (IF IsElement(Head(nodes)) THEN TextOf(Head(nodes).kids) ELSE Head(nodes).kids)
         \o TextOf(Tail(nodes))

\* element.find('img, br, hr').length > 0
RECURSIVE HasBr(_)
HasBr(nodes) ==
  /\ nodes # <<>>
  /\ \/ Head(nodes).tag = "br"
     \/ IsElement(Head(nodes)) /\ HasBr(Head(nodes).kids)
     \/ HasBr(Tail(nodes))

\* step 7a: $('*').each over the elements found before the loop, in document order; an
\* element without text and without br below it is removed. The elements below a removed
\* one are visited detached, which changes nothing in the document
RECURSIVE RemoveEmpty(_)
RemoveEmpty(nodes) ==
  IF nodes = <<>> THEN <<>>
  ELSE LET n == Head(nodes)
       IN (IF ~IsElement(n) \/ n.tag = "br" THEN <<n>>
           ELSE IF TextOf(n.kids) = <<>> /\ ~HasBr(n.kids) THEN <<>>
           ELSE <<Element(n.tag, RemoveEmpty(n.kids))>>) \o RemoveEmpty(Tail(nodes))

\* element.children(): the element children
RECURSIVE Children(_)
Children(nodes) ==
  IF nodes = <<>> THEN <<>>
  ELSE (IF IsElement(Head(nodes)) THEN <<Head(nodes)>> ELSE <<>>) \o Children(Tail(nodes))

\* step 7b: an element without text whose only child is a br is removed
RECURSIVE RemoveOnlyBr(_)
RemoveOnlyBr(nodes) ==
  IF nodes = <<>> THEN <<>>
  ELSE LET n == Head(nodes)
       IN (IF ~IsElement(n) THEN <<n>>
           ELSE IF /\ TextOf(n.kids) = <<>>
                   /\ Len(Children(n.kids)) = 1
                   /\ Children(n.kids)[1].tag = "br" THEN <<>>
           ELSE <<Element(n.tag, RemoveOnlyBr(n.kids))>>) \o RemoveOnlyBr(Tail(nodes))

\* step 7c: $('div, span').each over the divs found before the loop: a div with content
\* whose parent allows it is replaced by the nodes parsed from its html(). The divs below
\* it are then visited detached, and their copies in the document are not in the list:
\* one level of nested divs is unwrapped per pass
RECURSIVE Unwrap(_, _)
Unwrap(nodes, parentTag) ==
  IF nodes = <<>> THEN <<>>
  ELSE LET n == Head(nodes)
       IN (IF ~IsElement(n) THEN <<n>>
           ELSE IF n.tag = "div" /\ parentTag \notin NoUnwrapBelow /\ n.kids # <<>>
             THEN n.kids
           ELSE <<Element(n.tag, Unwrap(n.kids, n.tag))>>) \o Unwrap(Tail(nodes), parentTag)

\* element.replaceWith(text): the string is parsed as markup, so escaped markup that
\* text() has decoded becomes elements
RECURSIVE ParseText(_)
ParseText(chars) ==
  IF chars = <<>> THEN <<>>
  ELSE (IF Head(chars).tag = "#esc" THEN Head(chars).kids ELSE <<TextNode(<<Head(chars)>>)>>)
         \o ParseText(Tail(chars))

\* step 7d: $('*').each over the elements found before the loop: an element with more
\* than maxNestingLevel ancestors (getElementDepth counts html and body) is replaced by
\* its text, or removed when it has none. depth is the depth of the nodes of the list
RECURSIVE LimitNesting(_, _, _)
LimitNesting(nodes, depth, maxNestingLevel) ==
  IF nodes = <<>> THEN <<>>
  ELSE LET n == Head(nodes)
       IN (IF ~IsElement(n) THEN <<n>>
           ELSE IF depth > maxNestingLevel THEN ParseText(TextOf(n.kids))
           ELSE <<Element(n.tag, LimitNesting(n.kids, depth + 1, maxNestingLevel))>>)
            \o LimitNesting(Tail(nodes), depth, maxNestingLevel)

\* one pass of step 7
Pass(doc, maxNestingLevel) ==
  LimitNesting(Unwrap(RemoveOnlyBr(RemoveEmpty(doc)), "#document"), 0, maxNestingLevel)

\* for (let pass = 0; pass < 3; pass++)
ThreePasses(doc, maxNestingLevel) ==
  Pass(Pass(Pass(doc, maxNestingLevel), maxNestingLevel), maxNestingLevel)

\* step 8: a br is removed when no element follows it among its siblings or a block
\* element does; br.next() passes over text nodes
RECURSIVE RemoveBr(_)
RemoveBr(nodes) ==
  IF nodes = <<>> THEN <<>>
  ELSE LET n == Head(nodes)
           next == Children(Tail(nodes))
       IN (IF n.tag = "br" /\ (next = <<>> \/ next[1].tag \in Block) THEN <<>>
           ELSE IF IsElement(n) THEN <<Element(n.tag, RemoveBr(n.kids))>>
           ELSE <<n>>) \o RemoveBr(Tail(nodes))

\* steps 9 and 10: $.html() without the <html><body> wrapper; adjacent text nodes are one
\* run of characters in the string
Serialize(doc) ==
  IF doc # <<>> /\ doc[1].tag = "html" /\ doc[1].kids # <<>> /\ doc[1].kids[1].tag = "body"
    THEN MergeText(doc[1].kids[1].kids)
  ELSE MergeText(doc)

\* cleanHtml(html, { maxNestingLevel })
CleanHtml(html, maxNestingLevel) ==
  Serialize(RemoveBr(ThreePasses(RemoveUnwanted(Load(html)), maxNestingLevel)))

CleanerIdle == [pc |-> "idle", html |-> <<>>, once |-> <<>>, twice |-> <<>>]

\* cleanHtml is applied to a markup
CleanOnce(html) ==
  /\ cleaner.pc = "idle"
  /\ cleaner' = [cleaner EXCEPT !.pc = "once", !.html = html,
                                !.once = CleanHtml(html, MaxNestingLevel)]
  /\ UNCHANGED <<ingestVars, emb, search, llmVars, rag>>

\* cleanHtml is applied to the string it returned
CleanTwice ==
  /\ cleaner.pc = "once"
  /\ cleaner' = [cleaner EXCEPT !.pc = "twice",
                                !.twice = CleanHtml(cleaner.once, MaxNestingLevel)]
  /\ UNCHANGED <<ingestVars, emb, search, llmVars, rag>>

\* ------------------------------------------------------------ specifications

\* everything but the tables: no request is in progress
InitRest ==
  /\ pp = [pc |-> "idle", pages |-> <<>>, batchSize |-> 1, batchIndex |-> 0,
           allResults |-> <<>>]
  /\ run = <<>>
  /\ deindex = [pc |-> "idle", id |-> 0, count |-> 0]
  /\ script = <<>>
  /\ snapshot = [chunk |-> {}, question |-> {}]
  /\ observed = {}
  /\ progressLog = <<>>
  /\ indexingTasks = <<>>
  /\ emb = EmbIdle
  /\ search = SearchIdle
  /\ chunker = ChunkerIdle
  /\ enricher = EnricherIdle
  /\ rag = RagIdle
  /\ cleaner = CleanerIdle

\* the tables are empty and the SERIAL sequences are at their start
InitIngest ==
  /\ chunk = {}
  /\ question = {}
  /\ nextChunkId = 1
  /\ nextQuestionId = 1
  /\ InitRest

\* the page lists of a request, up to the naming of the documents: the first page is
\* document 1
PageLists ==
  {ps \in UNION {[1..n -> Docs] : n \in 0..MaxPages} : Len(ps) > 0 => ps[1] = 1}

RunStep(i) ==
  \/ StartRun(i)
  \/ \E ok \in BOOLEAN : FetchReturns(i, ok)
  \/ \E ok \in BOOLEAN : CleanReturns(i, ok)
  \/ \E n \in -1..MaxChunks : SplitReturns(i, n)
  \/ \E c \in 1..MaxChunks, nq \in 0..MaxQuestionsPerChunk : QuestionsReturn(i, c, nq)
  \/ \E ok \in BOOLEAN : DeleteChunksReturns(i, ok)
  \/ \E ok \in BOOLEAN : DeleteQuestionsReturns(i, ok)
  \/ \E failed \in SUBSET (1..MaxChunks) : EmbedChunksReturns(i, failed)
  \/ \E reachable \in BOOLEAN : InsertChunkReturns(i, reachable)
  \/ \E failed \in SUBSET (1..(MaxChunks * MaxQuestionsPerChunk)) :
        EmbedQuestionsReturns(i, failed)
  \/ \E reachable \in BOOLEAN : InsertQuestionReturns(i, reachable)

\* one processPages call over any page list
Init ==
  /\ InitIngest
  /\ mode = "free"

Next ==
  \/ \E pages \in PageLists, bs \in 1..MaxBatchSize : ProcessPages(pages, bs)
  \/ \E i \in 1..MaxPages : RunStep(i)
  \/ BatchDone

Spec == Init /\ [][Next]_vars

\* the pages of one call processed one after the other, with a concurrent de-index request
NextDeindex ==
  \/ \E pages \in PageLists : ProcessPages(pages, 1)
  \/ \E i \in 1..MaxPages : RunStep(i)
  \/ BatchDone
  \/ \E id \in Docs : DeindexRequest(id)
  \/ \E ok \in BOOLEAN : DeindexDeleteChunks(ok)
  \/ \E ok \in BOOLEAN : DeindexDeleteQuestions(ok)

SpecDeindex == Init /\ [][NextDeindex]_vars

\* processPage twice in sequence for the same document, the second run given either any
\* responses ("reindex") or the responses of the first ("replay")
InitReindex ==
  /\ InitIngest
  /\ mode \in {"reindex", "replay"}

NextReindex ==
  \/ ProcessPages(<<1, 1>>, 1)
  \/ \E i \in 1..2 : RunStep(i)
  \/ BatchDone

SpecReindex == InitReindex /\ [][NextReindex]_vars

\* one request to the index handler: its pages run in one batch and report their progress
\* the steps of a run whose embedding groups succeed and whose question inserts succeed
\* (those failures are caught inside the run and report no progress)
RunStepProgress(i) ==
  \/ StartRun(i)
  \/ \E ok \in BOOLEAN : FetchReturns(i, ok)
  \/ \E ok \in BOOLEAN : CleanReturns(i, ok)
  \/ \E n \in -1..MaxChunks : SplitReturns(i, n)
  \/ \E c \in 1..MaxChunks, nq \in 0..MaxQuestionsPerChunk : QuestionsReturn(i, c, nq)
  \/ \E ok \in BOOLEAN : DeleteChunksReturns(i, ok)
  \/ \E ok \in BOOLEAN : DeleteQuestionsReturns(i, ok)
  \/ EmbedChunksReturns(i, {})
  \/ \E reachable \in BOOLEAN : InsertChunkReturns(i, reachable)
  \/ EmbedQuestionsReturns(i, {})
  \/ InsertQuestionReturns(i, TRUE)

InitProgress ==
  /\ InitIngest
  /\ mode = "progress"

NextProgress ==
  \/ \E pages \in PageLists : IndexHandler(pages)
  \/ \E i \in 1..MaxPages : RunStepProgress(i)
  \/ BatchDone

SpecProgress == InitProgress /\ [][NextProgress]_vars

\* the same when every awaited call eventually returns: a run that waits for a call takes
\* its next step, and Promise.all of a batch whose runs have returned resolves
SpecProgressFair ==
  /\ SpecProgress
  /\ \A i \in 1..MaxPages : WF_vars(RunStepProgress(i))
  /\ WF_vars(BatchDone)

\* one getEmbeddingsForTexts call over any list of texts
NextEmbed ==
  \/ \E tokenCounts \in UNION {[1..n -> TokenCounts] : n \in 0..MaxTexts} :
        GetEmbeddingsForTexts(tokenCounts)
  \/ \E outcome \in Outcomes : EmbeddingsResponse(outcome)

SpecEmbed == Init /\ [][NextEmbed]_vars

\* the tables a search can find: chunks 1..n, and questions that refer to them
SearchChunkTables ==
  UNION {{ {ChunkRow(id, 1, <<1, id>>, <<e[id]>>, 0) : id \in 1..n} : e \in [1..n -> Coords]} :
           n \in 0..MaxSearchChunks}

SearchQuestionTables(n) ==
  UNION {{ {QuestionRow(id, f[id][1], 1, <<1, f[id][1], id>>, <<f[id][2]>>, 0) : id \in 1..m} :
             f \in [1..m -> (1..n) \X Coords]} : m \in 0..MaxSearchQuestions}

InitSearch ==
  /\ chunk \in SearchChunkTables
  /\ question \in SearchQuestionTables(Cardinality(chunk))
  /\ nextChunkId = Cardinality(chunk) + 1
  /\ nextQuestionId = Cardinality(question) + 1
  /\ InitRest
  /\ mode = "free"

NextSearch ==
  \E q \in Coords, threshold \in Coords, limit \in 1..MaxLimit :
    SearchSimilar(<<q>>, threshold, limit)

SpecSearch == InitSearch /\ [][NextSearch]_vars

\* one splitIntoChunks call over any text
NextSplit ==
  \/ \E cleanedHtml \in Texts : SplitIntoChunks(cleanedHtml)
  \/ \E response \in ChunkResponses : ChunkChatReturns(response)

SpecSplit == Init /\ [][NextSplit]_vars

\* one generateQuestionsForChunk call over any fragment text
NextQuestions ==
  \/ \E chunkText \in Texts, maxQuestions \in {1, DefaultMaxQuestions} :
        GenerateQuestionsForChunk(chunkText, maxQuestions)
  \/ \E response \in QuestionResponses : QuestionChatReturns(response)

SpecQuestions == Init /\ [][NextQuestions]_vars

\* one ragSearch call over any request body
NextRag ==
  \/ \E query \in Queries, threshold \in Thresholds, chunksLimit \in Limits :
        RagSearch(query, threshold, chunksLimit)
  \/ \E outcome \in Outcomes : RagEmbeddingReturns(outcome)
  \/ \E ok \in BOOLEAN : RagSearchReturns(ok)

SpecRag == Init /\ [][NextRag]_vars

\* one processPage run over a page of up to MaxFragments fragments, its embedding groups
\* succeeding
RunStepEnrich(i) ==
  \/ StartRun(i)
  \/ \E ok \in BOOLEAN : FetchReturns(i, ok)
  \/ \E ok \in BOOLEAN : CleanReturns(i, ok)
  \/ \E n \in -1..MaxFragments : SplitReturns(i, n)
  \/ \E c \in 1..MaxFragments, nq \in 0..MaxQuestionsPerChunk : QuestionsReturn(i, c, nq)
  \/ \E ok \in BOOLEAN : DeleteChunksReturns(i, ok)
  \/ \E ok \in BOOLEAN : DeleteQuestionsReturns(i, ok)
  \/ EmbedChunksReturns(i, {})
  \/ \E reachable \in BOOLEAN : InsertChunkReturns(i, reachable)
  \/ EmbedQuestionsReturns(i, {})
  \/ \E reachable \in BOOLEAN : InsertQuestionReturns(i, reachable)

NextEnrich ==
  \/ ProcessPages(<<1>>, 1)
  \/ RunStepEnrich(1)
  \/ BatchDone

SpecEnrich == Init /\ [][NextEnrich]_vars

\* cleanHtml over any markup, and over its own output
NextClean ==
  \/ \E html \in Markups : CleanOnce(html)
  \/ CleanTwice

SpecClean == Init /\ [][NextClean]_vars

\* ------------------------------------------------------------------ claims

Visible(d) == [chunk |-> ChunksOf(d), question |-> QuestionsOf(d)]

Reindexing == 2 \in DOMAIN run /\ snapshot.chunk # {}

\* C1 as stated: while a run re-indexes a document that has stored rows, whatever a
\* reader sees between two storage operations of the run is the complete old set or the
\* complete new set, and never an empty set
C1_ReaderSeesOldOrNew ==
  (Reindexing /\ run[2].pc = "done") =>
    \A v \in observed : (v = snapshot \/ v = Visible(1)) /\ v.chunk # {}

\* C1 amended: the complete old set is visible until the first delete query of the run
\* returns; between two storage operations of the run a reader sees no old row but a
\* subset of the new set (empty after the delete, partial during the inserts), in which
\* every question has its fragment
C1_ReaderSeesOldThenSubsetOfNew ==
  Reindexing =>
    /\ run[2].pc \in {"notstarted", "waiting", "fetching", "cleaning", "chunking",
                      "questions", "deleteChunks"} => Visible(1) = snapshot
    /\ \A v \in observed :
         /\ \A c \in v.chunk : c.by = 2
         /\ \A q \in v.question : q.by = 2 /\ \E c \in v.chunk : c.chunk_id = q.chunk_id
         /\ run[2].pc = "done" =>
              v.chunk \subseteq ChunksOf(1) /\ v.question \subseteq QuestionsOf(1)

C1_Witness ==
  /\ Reindexing
  /\ snapshot.question # {}
  /\ run[2].pc = "insertQuestion"
  /\ [chunk |-> {}, question |-> {}] \in observed
  /\ chunk # {}

\* C2: after two processPage runs in sequence for the same document with the same
\* content and the same collaborator responses, as many fragments are stored as after
\* the first run and no row inserted by the first run remains
C2_SecondRunReplacesFirst ==
  (mode = "replay" /\ 2 \in DOMAIN run /\ run[2].pc = "done") =>
    /\ Cardinality(ChunksOf(1)) = Cardinality(snapshot.chunk)
    /\ \A c \in chunk : c.by # 1
    /\ \A q \in question : q.by # 1

C2_Witness ==
  /\ mode = "replay"
  /\ 2 \in DOMAIN run
  /\ run[2].pc = "done"
  /\ run[2].result.success
  /\ Cardinality(snapshot.chunk) = 2
  /\ snapshot.question # {}
  /\ question # {}

\* C3: in every state every stored question's chunk_id is that of a stored fragment of
\* the same document that the same run inserted
C3_QuestionHasOwnFragment ==
  \A q \in question :
    \E c \in chunk : c.chunk_id = q.chunk_id /\ c.wiki_id = q.wiki_id /\ c.by = q.by

\* a de-index of the document deleted its fragments between two fragment inserts of a run
\* and is between its two queries; the run went on and stored a question of a later fragment
C3_Witness ==
  \E i \in DOMAIN run :
    /\ run[i].pc = "done"
    /\ run[i].result.success
    /\ deindex.pc = "deleteQuestions"
    /\ deindex.id = run[i].pageId
    /\ QuestionsOf(run[i].pageId) # {}
    /\ \A c \in ChunksOf(run[i].pageId) : c.by = i
    /\ run[i].result.chunksProcessed > Cardinality(ChunksOf(run[i].pageId))

OneResultPerPage ==
  pp.pc = "done" =>
    /\ Len(pp.allResults) = Len(pp.pages)
    /\ \A j \in 1..Len(pp.pages) :
         /\ run[j].pc = "done"
         /\ pp.allResults[j] = [pageId |-> pp.pages[j]] @@ run[j].result

SavedChunks(i) ==
  IF run[i].pc = "done" THEN run[i].result.chunksProcessed ELSE run[i].savedChunks

SavedQuestions(i) ==
  IF run[i].pc = "done" THEN run[i].result.questionsGenerated ELSE run[i].savedQuestions

\* C5: when the pages of a call have distinct identifiers, in every state and so after
\* all runs have returned, the rows stored for a document are exactly the rows its own
\* run has inserted
C5_OwnRowsOnly ==
  (\A i, j \in DOMAIN run : i # j => run[i].pageId # run[j].pageId) =>
    \A i \in DOMAIN run :
      /\ \A c \in ChunksOf(run[i].pageId) : c.by = i
      /\ \A q \in QuestionsOf(run[i].pageId) : q.by = i
      /\ Cardinality(ChunksOf(run[i].pageId)) = SavedChunks(i)
      /\ Cardinality(QuestionsOf(run[i].pageId)) = SavedQuestions(i)

\* two runs of one batch: the second has run its delete while the first has rows stored
C5_Witness ==
  /\ pp.batchSize = 2
  /\ DOMAIN run = {1, 2}
  /\ run[1].pageId # run[2].pageId
  /\ run[1].pc = "insertQuestion"
  /\ run[2].pc = "insertChunk"
  /\ QuestionsOf(run[1].pageId) # {}
  /\ ChunksOf(run[2].pageId) # {}

\* the group of the call that input j was sent in
GroupOf(j) == CHOOSE g \in DOMAIN emb.groups :
                \E p \in DOMAIN emb.groups[g].indices : emb.groups[g].indices[p] = j

GroupFailed(g) == emb.groups[g].outcome # "ok"

Range(s) == {s[p] : p \in DOMAIN s}

\* C6: when getEmbeddingsForTexts returns, its embeddings list is as long as the list of
\* inputs, every input was sent in exactly one group, and entry j is the vector the
\* service computed for input j, or the empty placeholder when the group of input j failed.
C6_AlignedWithInputs ==
  emb.pc = "done" =>
    /\ Len(emb.result.embeddings) = Len(emb.tokenCounts)
    /\ \A j \in 1..Len(emb.tokenCounts) :
         /\ Cardinality({g \in DOMAIN emb.groups : j \in Range(emb.groups[g].indices)}) = 1
         /\ emb.result.embeddings[j] =
              IF GroupFailed(GroupOf(j)) THEN <<>> ELSE ServiceVector(j)

\* a call of three texts returned; a group of two failed and a group of one succeeded
C6_Witness ==
  /\ emb.pc = "done"
  /\ Len(emb.tokenCounts) = 3
  /\ \E g, h \in DOMAIN emb.groups :
       /\ GroupFailed(g) /\ Len(emb.groups[g].indices) = 2
       /\ ~GroupFailed(h)
  /\ emb.result.embeddings[3] = ServiceVector(3)

\* the indices of the groups answered so far that failed
FailedSoFar == UNION {Range(emb.groups[g].indices) : g \in {h \in DOMAIN emb.groups : GroupFailed(h)}}

\* C7: a group whose request throws, or returns another number of vectors than it has
\* inputs, does not end the call: the call goes on to the next group or returns. At every
\* point of the call failedIndices holds exactly the indices of the failed groups, each
\* once, these are exactly the positions that hold an empty vector, and the entries of
\* the other groups are their vectors; failedIndices is absent when no group failed.
C7_FailedGroupIsMarked ==
  /\ emb.pc \in {"idle", "request", "done"}
  /\ emb.pc # "idle" =>
       /\ Range(emb.failedIndices) = FailedSoFar
       /\ Cardinality(Range(emb.failedIndices)) = Len(emb.failedIndices)
       /\ {j \in DOMAIN emb.embeddings : emb.embeddings[j] = <<>>} = FailedSoFar
       /\ \A j \in DOMAIN emb.embeddings :
            j \notin FailedSoFar => emb.embeddings[j] = ServiceVector(j)
  /\ emb.pc = "done" =>
       /\ emb.result.hasFailedIndices <=> FailedSoFar # {}
       /\ emb.result.failedIndices = emb.failedIndices
       /\ emb.result.embeddings = emb.embeddings

\* the call went on after a failure:
\* the first group of two failed by a throw, and a later group succeeded
C7_Witness ==
  /\ emb.pc = "done"
  /\ Len(emb.groups) >= 2
  /\ emb.groups[1].outcome = "throw"
  /\ Len(emb.groups[1].indices) = 2
  /\ emb.groups[2].outcome = "ok"
  /\ emb.result.failedIndices = <<1, 2>>

\* the cs values of the rows of a chunk that pass the threshold: its own row and the rows
\* of its questions
QualifyingCs(chunkId) ==
  {Real(Distance(c.embedding, search.query)) :
     c \in {x \in chunk : /\ x.chunk_id = chunkId
                          /\ Distance(x.embedding, search.query) <= search.threshold}}
  \cup
  {Real(Distance(q.embedding, search.query)) :
     q \in {x \in question : /\ x.chunk_id = chunkId
                             /\ \E c \in chunk : c.chunk_id = chunkId
                             /\ Distance(x.embedding, search.query) <= search.threshold}}

Qualifying == {id \in {c.chunk_id : c \in chunk} : QualifyingCs(id) # {}}

Best(chunkId) == CHOOSE d \in QualifyingCs(chunkId) : \A e \in QualifyingCs(chunkId) : d <= e

\* C8: searchSimilar returns at most one result per chunk_id, and the distance of a result
\* is the smallest one among the rows of its chunk that pass the threshold, the chunk's own
\* row and the rows of its questions.
C8_BestPerChunk ==
  search.pc = "done" =>
    /\ \A a, b \in DOMAIN search.results :
         a # b => search.results[a].chunk_id # search.results[b].chunk_id
    /\ \A p \in DOMAIN search.results :
         /\ search.results[p].chunk_id \in Qualifying
         /\ search.results[p].cs = Best(search.results[p].chunk_id)

\* a result whose chunk passes with its own row and with a closer question
C8_Witness ==
  /\ search.pc = "done"
  /\ \E p \in DOMAIN search.results :
       /\ Cardinality(QualifyingCs(search.results[p].chunk_id)) = 2
       /\ search.results[p].question # NullQuestion
       /\ \E c \in chunk : /\ c.chunk_id = search.results[p].chunk_id
                           /\ Distance(c.embedding, search.query) <= search.threshold
                           /\ Real(Distance(c.embedding, search.query)) > search.results[p].cs

ReturnedIds == {search.results[p].chunk_id : p \in DOMAIN search.results}

\* C9: the results are in non-decreasing order of distance, in searchSimilar and in the
\* response of ragSearch; their number is the smaller of the limit and the number of
\* distinct chunks that qualify; and no qualifying chunk that is left out has a smaller
\* best distance than one that is returned.
C9_SortedTopN ==
  search.pc = "done" =>
    /\ \A a, b \in DOMAIN search.results :
         a < b => search.results[a].cs <= search.results[b].cs
    /\ Len(search.results) = Min2(search.limit, Cardinality(Qualifying))
    /\ \A out \in Qualifying \ ReturnedIds, p \in DOMAIN search.results :
         Best(out) >= search.results[p].cs
    /\ search.response.total_results = Len(search.results)
    /\ \A p \in DOMAIN search.results :
         /\ search.response.results[p].similarity = search.results[p].cs
         /\ search.response.results[p].chunk_id = search.results[p].chunk_id

\* more chunks qualify than the limit allows; the one returned was found through its
\* question and the one left out, which is farther, through its own row
C9_Witness ==
  /\ search.pc = "done"
  /\ search.limit = 1
  /\ Len(search.results) = 1
  /\ search.results[1].question # NullQuestion
  /\ \E out \in Qualifying \ ReturnedIds : Best(out) > search.results[1].cs

\* C10: every result has a distance that is at most the threshold, for the rows found
\* through a question and through the chunk alike, and when no row qualifies the result is
\* the empty list.
C10_WithinThreshold ==
  search.pc = "done" =>
    /\ \A p \in DOMAIN search.results : search.results[p].cs <= search.threshold
    /\ Qualifying = {} => search.results = <<>>

\* the question rows and the chunk row of a chunk that pass the threshold, with their cs
QualifyingQuestions(chunkId) ==
  {q \in question : /\ q.chunk_id = chunkId
                    /\ \E c \in chunk : c.chunk_id = chunkId
                    /\ Distance(q.embedding, search.query) <= search.threshold}

QualifyingChunks(chunkId) ==
  {c \in chunk : /\ c.chunk_id = chunkId
                 /\ Distance(c.embedding, search.query) <= search.threshold}

Cs(row) == Real(Distance(row.embedding, search.query))

\* C11: for each result, when a question row of its chunk passes the threshold and is
\* strictly closer (in the distance the queries return) than the chunk's own row, or the
\* chunk's own row does not pass, the question field is the text of a question row of that
\* chunk whose distance is the returned one; when the chunk's own row passes and is
\* strictly closer than every passing question row, the question field is null. The chunk
\* field is the chunk's text in both cases.
C11_QuestionOfBestRow ==
  search.pc = "done" =>
    \A p \in DOMAIN search.results :
      LET r == search.results[p]
          qs == QualifyingQuestions(r.chunk_id)
          cs == QualifyingChunks(r.chunk_id)
      IN /\ (qs # {} /\ \A c \in cs : \E q \in qs : Cs(q) < Cs(c)) =>
              \E q \in qs : Cs(q) = r.cs /\ r.question = q.text
         /\ (cs # {} /\ \A q \in qs : \E c \in cs : Cs(c) < Cs(q)) =>
              r.question = NullQuestion
         /\ \E c \in chunk : c.chunk_id = r.chunk_id /\ r.chunk = c.text

\* a result found through the chunk's own row, which replaced a farther question row of
\* the same chunk, and a result found through the closer one of two question rows
C11_Witness ==
  /\ search.pc = "done"
  /\ Len(search.results) = 2
  /\ \E p \in DOMAIN search.results :
       /\ search.results[p].question = NullQuestion
       /\ \E q \in QualifyingQuestions(search.results[p].chunk_id) :
            Cs(q) > search.results[p].cs
  /\ \E p \in DOMAIN search.results :
       /\ search.results[p].question # NullQuestion
       /\ \E c \in QualifyingChunks(search.results[p].chunk_id) :
            Cs(c) > search.results[p].cs

\* the place of a stage in the order of the stages
StageRank(stage) ==
  CASE stage = "fetching" -> 1 [] stage = "cleaning" -> 2 [] stage = "chunking" -> 3
    [] stage = "questions" -> 4 [] stage = "embeddings" -> 5 [] stage = "saving" -> 6
    [] stage = "completed" -> 7 [] OTHER -> 8

Terminal(stage) == stage \in {"completed", "error"}

\* C12: in the reports of one processPage run a stage never follows a later stage of the
\* order fetching, cleaning, chunking, questions, embeddings, saving, completed (it may
\* repeat); error may follow any stage; nothing is reported after completed or error.
C12_StagesInOrder ==
  \A i \in DOMAIN progressLog :
    \A a, b \in DOMAIN progressLog[i] :
      a < b =>
        /\ ~Terminal(progressLog[i][a].stage)
        /\ progressLog[i][b].stage # "error" =>
             StageRank(progressLog[i][a].stage) <= StageRank(progressLog[i][b].stage)

\* one run reported questions several times and went through every stage to completed,
\* and another run of the same request reported error after embeddings
C12_Witness ==
  /\ Len(progressLog) = 2
  /\ Len(progressLog[1]) = 8
  /\ progressLog[1][8].stage = "completed"
  /\ progressLog[1][5].stage = "questions"
  /\ Len(progressLog[2]) >= 2
  /\ progressLog[2][Len(progressLog[2])].stage = "error"
  /\ progressLog[2][Len(progressLog[2]) - 1].stage = "embeddings"

TerminalReports(i) == {a \in DOMAIN progressLog[i] : Terminal(progressLog[i][a].stage)}

\* C13: a processPage run that has returned reported exactly one terminal stage, as its last
\* report: completed when it returned success (also when there was no chunk), error when
\* it returned failure.
C13_OneTerminalStage ==
  mode = "progress" =>
    \A i \in DOMAIN run :
      run[i].pc = "done" =>
        /\ Cardinality(TerminalReports(i)) = 1
        /\ progressLog[i][Len(progressLog[i])].stage =
             IF run[i].result.success THEN "completed" ELSE "error"

\* C14: within one processPage run every progress percentage passed to the callback is
\* greater than or equal to the one passed before it, for every order in which the
\* getQuestions calls settle and every step at which the run fails.
C14_ProgressNonDecreasing ==
  \A i \in DOMAIN progressLog :
    \A a \in DOMAIN progressLog[i] :
      a > 1 => progressLog[i][a - 1].progress <= progressLog[i][a].progress

\* C15: when processPage has failed for a page, the task of that page in the registry has
\* status error and its error field is the message of the failure.
C15_FailedTaskHasMessage ==
  mode = "progress" =>
    \A i \in DOMAIN run :
      (run[i].pc = "done" /\ ~run[i].result.success /\ pp.pc = "done") =>
        \E t \in DOMAIN indexingTasks :
          /\ indexingTasks[t].pageId = run[i].pageId
          /\ indexingTasks[t].status = "error"
          /\ indexingTasks[t].error = ErrorMessage(run[i].failedAt)

\* C16: for a fragment text that is not blank, generateQuestionsForChunk returns at least
\* one question whatever the model call did, and when the call threw, returned content
\* that does not parse, an object without a questions array, an empty array or only
\* blank or too short questions, the returned list is the one-element list of the
\* fragment text.
C16_AtLeastOneQuestion ==
  (enricher.pc = "done" /\ ~Blank(enricher.chunkText)) =>
    /\ Len(enricher.result) >= 1
    /\ (\/ enricher.response.kind # "array"
        \/ LongEnough(TrimAll(NonBlank(enricher.response.questions))) = <<>>)
         => enricher.result = <<enricher.chunkText>>

\* C17: for content of at least CHUNK_CHARS_LIMIT characters, when the segmentation call
\* threw, returned content that does not parse, an object without a chunks array, an
\* empty chunks array or only blank strings, splitIntoChunks returns the fragments of
\* fallbackTextSplitting.
C17_FallbackOnEveryFailure ==
  (/\ chunker.pc = "done"
   /\ chunker.response.kind # "none"
   /\ \/ chunker.response.kind # "array"
      \/ NonBlank(chunker.response.chunks) = <<>>)
    => chunker.result = FallbackTextSplitting(chunker.cleanedHtml, CHUNK_CHARS_LIMIT)

\* C18: for a text that is not blank, fallbackTextSplitting returns at least one fragment.
C18_FallbackReturnsAFragment ==
  (chunker.pc = "done" /\ chunker.fallback /\ ~Blank(chunker.cleanedHtml))
    => Len(chunker.result) >= 1

\* a fragment that cannot be split further: one paragraph of one sentence
Unsplittable(fragment) ==
  /\ Len(NonBlank(SplitParagraphs(fragment))) = 1
  /\ Len(NonBlank(SplitSentences(fragment))) = 1

\* C19: every fragment of fallbackTextSplitting is at most the budget long, the inserted
\* separators counted, unless it is a single paragraph of one sentence.
C19_FragmentsWithinBudget ==
  (chunker.pc = "done" /\ chunker.fallback) =>
    \A k \in DOMAIN chunker.result :
      \/ Len(chunker.result[k]) <= CHUNK_CHARS_LIMIT
      \/ Unsplittable(chunker.result[k])

\* the groups of the call in the order they were built: those already sent and the one
\* whose request is awaited
GroupsBuilt ==
  [g \in 1..Len(emb.groups) |-> emb.groups[g].indices]
    \o (IF emb.pc = "request" THEN <<emb.batch>> ELSE <<>>)

RECURSIVE Flatten(_)
Flatten(ss) == IF ss = <<>> THEN <<>> ELSE Head(ss) \o Flatten(Tail(ss))

GroupTokens(indices) == SumTo([p \in 1..Len(indices) |-> emb.tokenCounts[indices[p]]], Len(indices))

\* C20: the groups getEmbeddingsForTexts builds are consecutive runs of the input indices,
\* in input order, none empty; when the call returns they cover every index exactly once;
\* the token counts of a group sum to at most MAX_TOKENS_PER_BATCH unless the group is a
\* single input whose own count exceeds it.
C20_GroupsPartitionWithinLimit ==
  LET covered == Flatten(GroupsBuilt) IN
  /\ covered = [p \in 1..Len(covered) |-> p]
  /\ emb.pc = "done" => Len(covered) = Len(emb.tokenCounts)
  /\ \A g \in DOMAIN GroupsBuilt :
       /\ GroupsBuilt[g] # <<>>
       /\ \/ GroupTokens(GroupsBuilt[g]) <= MAX_TOKENS_PER_BATCH
          \/ /\ Len(GroupsBuilt[g]) = 1
             /\ emb.tokenCounts[GroupsBuilt[g][1]] > MAX_TOKENS_PER_BATCH

\* a call has returned that sent an input over the limit alone and two inputs together
C20_Witness ==
  /\ emb.pc = "done"
  /\ \E g, h \in DOMAIN emb.groups :
       /\ Len(emb.groups[g].indices) = 1
       /\ emb.tokenCounts[emb.groups[g].indices[1]] > MAX_TOKENS_PER_BATCH
       /\ Len(emb.groups[h].indices) = 2
       /\ GroupTokens(emb.groups[h].indices) = MAX_TOKENS_PER_BATCH

\* C21: when the embedding group of a fragment failed and the storage was reachable,
\* processPage has stored a Fragment row for that fragment with the empty placeholder
\* vector; a run in which only embedding groups failed ends in completed.
C21_PlaceholderFragmentStored ==
  (mode = "replay" /\ 1 \in DOMAIN run) =>
    /\ run[1].pc \in {"insertChunk", "embedQuestions", "insertQuestion"} =>
         \A c \in DOMAIN run[1].chunkIds :
           (run[1].chunkBatch[c] = <<>> /\ script[Key("insertChunk", c, 0)]) =>
             \E row \in chunk :
               row.by = 1 /\ row.text = <<run[1].pageId, c>> /\ row.embedding = <<>>
    /\ (run[1].pc = "done" /\ "embed" \in run[1].absorbed /\ run[1].failedAt = "none") =>
         run[1].result.success

\* C22: when the pages of a call are distinct, a processPage run that returned success
\* after deleteByWikiId (so its segmentation gave at least one fragment) has left at
\* least one Fragment row stored for its document.
C22_CompletedRunStoredAFragment ==
  (\A i, j \in DOMAIN run : i # j => run[i].pageId # run[j].pageId) =>
    \A i \in DOMAIN run :
      (run[i].pc = "done" /\ run[i].result.success /\ run[i].deleted) =>
        ChunksOf(run[i].pageId) # {}

\* the request of a ragSearch call is invalid in the sense of the claim: the query is
\* empty or no string, the threshold is a number outside [0, 1], or the limit is a
\* number outside [1, 100]
RagInvalid ==
  \/ rag.query.type # "string" \/ rag.query.value = <<>>
  \/ rag.threshold.type = "number" /\ (rag.threshold.value < 0 \/ rag.threshold.value > 100)
  \/ rag.chunksLimit.type = "number"
       /\ (rag.chunksLimit.value < 1 \/ rag.chunksLimit.value > 100)

\* C23: a ragSearch call with an empty or non-string query, a threshold outside [0, 1] or
\* a limit outside [1, 100] has failed with an error and has issued no embedding request
\* and no storage query.
C23_InvalidSearchFailsFirst ==
  (rag.pc # "idle" /\ RagInvalid) =>
    /\ rag.pc = "failed"
    /\ rag.error # "none"
    /\ rag.calls = <<>>

\* every kind of invalid request is tried: a call failed on its limit alone
C23_Witness ==
  /\ rag.pc = "failed"
  /\ rag.query = Str(<<"a">>)
  /\ rag.threshold = Num(100)
  /\ rag.chunksLimit = Num(101)
  /\ rag.calls = <<>>

\* C24: a run whose splitIntoChunks returned one fragment (the content is shorter than
\* the limit) and that returned success has stored exactly one Fragment row, whose text
\* is the source header followed by that fragment.
C24_ShortContentStoresOneFragment ==
  (/\ mode = "replay"
   /\ 1 \in DOMAIN run
   /\ run[1].pc = "done"
   /\ run[1].result.success
   /\ Key("split", 0, 0) \in DOMAIN script
   /\ script[Key("split", 0, 0)] = 1)
    => \E row \in snapshot.chunk :
         snapshot.chunk = {row} /\ row.text = <<run[1].pageId, 1>>

\* C25: cleanHtml applied to its own output returns that output unchanged.
C25_CleanHtmlIdempotent ==
  cleaner.pc = "twice" => cleaner.twice = cleaner.once

\* the largest number of ancestors of an element of a node list
RECURSIVE MaxAncestors(_, _)
MaxAncestors(nodes, depth) ==
  IF nodes = <<>> THEN 0
  ELSE LET n == Head(nodes)
           here == IF IsElement(n)
                     THEN IF n.kids = <<>> THEN depth
                          ELSE LET below == MaxAncestors(n.kids, depth + 1)
                               IN IF below > depth THEN below ELSE depth
                   ELSE 0
           rest == MaxAncestors(Tail(nodes), depth)
       IN IF here > rest THEN here ELSE rest

\* C26: no element of the output of cleanHtml has more than maxNestingLevel ancestors.
C26_OutputWithinNestingLevel ==
  cleaner.pc # "idle" => MaxAncestors(cleaner.once, 0) <= MaxNestingLevel

\* C27: when a later processPage run for a document returns success, no fragment or
\* question row inserted by an earlier run for that document remains stored.
C27_SuccessLeavesNoEarlierRows ==
  (mode = "reindex" /\ 2 \in DOMAIN run /\ run[2].pc = "done" /\ run[2].result.success) =>
    /\ \A c \in chunk : c.by # 1
    /\ \A q \in question : q.by # 1

\* C28: when every external call eventually returns, every task record the index handler
\* created eventually has the status completed or error.
C28_EveryTaskSettles ==
  \A t \in 1..MaxPages :
    [](t \in DOMAIN indexingTasks =>
         <>(t \in DOMAIN indexingTasks /\ indexingTasks[t].status \in {"completed", "error"}))

\* C29: after two overlapping processPage runs for the same document have both returned
\* success, the rows stored for the document are the rows one of the two runs inserted:
\* none of the other run, and as many as that run reports.
C29_OverlappingRunsLeaveOneRun ==
  (/\ pp.pc = "done" /\ pp.pages = <<1, 1>> /\ pp.batchSize = 2
   /\ run[1].result.success /\ run[2].result.success) =>
    \E r \in 1..2 :
      /\ \A c \in ChunksOf(1) : c.by = r
      /\ \A q \in QuestionsOf(1) : q.by = r
      /\ Cardinality(ChunksOf(1)) = run[r].result.chunksProcessed
      /\ Cardinality(QuestionsOf(1)) = run[r].result.questionsGenerated

\* C30: every question row a run inserts, for question k of fragment ci, carries the id
\* of the fragment row that the run inserted for fragment ci and the vector at position
\* (question counts of the fragments before ci) + k of the flattened question embeddings.
C30_QuestionRowsAligned ==
  [][\A q \in question' \ question :
       LET i == q.by
           ci == q.text[2]
           k == q.text[3]
       IN /\ \E c \in chunk : c.chunk_id = q.chunk_id
          /\ \A c \in chunk :
               c.chunk_id = q.chunk_id => (c.by = i /\ c.text = <<q.wiki_id, ci>>)
          /\ q.embedding = EmbVec(i, 1, SumTo(run[i].questions, ci - 1) + k)]_vars

\* a question of the second fragment is stored after the insert of the first fragment,
\* which has a question too, failed
C30_Witness ==
  /\ pp.pages = <<1>>
  /\ \E q \in question :
       /\ q.text = <<1, 2, 1>>
       /\ q.embedding = EmbVec(1, 1, 2)
       /\ \A c \in chunk : c.text # <<1, 1>>

\* C31: once a task record has the status completed or error, no later progress event
\* changes its status or its progress.
C31_SettledTaskIsFinal ==
  [][\A t \in DOMAIN indexingTasks :
       indexingTasks[t].status \in {"completed", "error"} =>
         /\ indexingTasks'[t].status = indexingTasks[t].status
         /\ indexingTasks'[t].progress = indexingTasks[t].progress]_vars

\* C35: a task record is only changed by a progress event of the run that its request
\* started for it: in a request, the run of the page entry the task was created for.
C35_TaskChangedByItsRunOnly ==
  [][\A t \in DOMAIN indexingTasks :
       indexingTasks'[t] # indexingTasks[t] =>
         /\ t \in DOMAIN progressLog
         /\ progressLog'[t] # progressLog[t]]_vars

\* the generateQuestionsForChunk calls of run i that have been started and have not settled
InFlight(i) ==
  IF run[i].pc = "questions"
    THEN Cardinality({c \in DOMAIN run[i].questions : run[i].questions[c] = -1})
  ELSE 0

\* C32: at no time are more than 3 generateQuestionsForChunk calls of one processPage run
\* in flight.
C32_EnrichmentCallsCapped ==
  \A i \in DOMAIN run : InFlight(i) <= 3

\* C33: no page of a later batch has started while a page of an earlier batch has not
\* returned its result, and at most batchSize pages are in flight.
C33_BatchesRunInSequence ==
  pp.pc = "running" =>
    /\ \A i, j \in DOMAIN run :
         (BatchOf(i) < BatchOf(j) /\ run[j].pc # "notstarted") => run[i].pc = "done"
    /\ Cardinality({i \in DOMAIN run : run[i].pc \notin {"notstarted", "done"}}) <= pp.batchSize

\* the page of the second batch is being processed after the page of the first returned
C33_Witness ==
  /\ pp.pc = "running"
  /\ pp.batchSize = 1
  /\ Len(pp.pages) = 2
  /\ run[1].pc = "done"
  /\ run[2].pc = "questions"

\* C36: when the embedding request for the query failed, ragSearch fails without calling
\* searchSimilar: storage is never queried with the empty vector.
C36_NoSearchWithoutQueryVector ==
  (rag.pc \in {"searching", "done", "failed"} /\ rag.embedding = <<>>) =>
    /\ rag.pc = "failed"
    /\ \A c \in DOMAIN rag.calls : rag.calls[c] # "searchSimilar"

\* C37: when a processPage run has failed at fetch, normalization or segmentation, the
\* fragment and question rows stored before the run are the rows stored after it.
C37_EarlyFailureKeepsRows ==
  (/\ mode \in {"reindex", "replay"}
   /\ 2 \in DOMAIN run
   /\ run[2].pc = "done"
   /\ run[2].failedAt \in {"fetch", "clean", "split"}) =>
    /\ chunk = snapshot.chunk
    /\ question = snapshot.question

\* the second run failed early over a document that has fragments and questions stored
C37_Witness ==
  /\ mode = "reindex"
  /\ 2 \in DOMAIN run
  /\ run[2].pc = "done"
  /\ run[2].failedAt \in {"fetch", "clean", "split"}
  /\ ~run[2].result.success
  /\ ChunksOf(1) # {}
  /\ QuestionsOf(1) # {}

\* the characters of a text that are not white space
NoSpace(s) == SelectSeq(s, LAMBDA c : ~IsSpace(c))

\* C38: the fragments of fallbackTextSplitting, concatenated in order and white space
\* ignored, are the non-blank paragraphs of the input concatenated in order.
C38_FallbackKeepsTheText ==
  (chunker.pc = "done" /\ chunker.fallback) =>
    NoSpace(Flatten(chunker.result)) =
      NoSpace(Flatten(NonBlank(SplitParagraphs(chunker.cleanedHtml))))

\* C34: after a run over a page of several fragments has returned success, whatever each
\* enrichment call gave (the degraded list of a failed call included), every fragment of
\* the page is stored, each with as many questions as its own enrichment call returned.
C34_EnrichmentFailureIsLocal ==
  (/\ mode = "replay"
   /\ 1 \in DOMAIN run
   /\ run[1].pc = "done"
   /\ run[1].result.success
   /\ Key("split", 0, 0) \in DOMAIN script
   /\ script[Key("split", 0, 0)] >= 2) =>
    \A c \in 1..script[Key("split", 0, 0)] :
      /\ \E row \in snapshot.chunk : row.text = <<run[1].pageId, c>>
      /\ Cardinality({q \in snapshot.question : q.text[2] = c}) =
           script[Key("questions", c, 0)]

====
